---------------------------- MODULE Spec2Model ----------------------------
(***************************************************************************)
(* Cup tipover analyzer: the tipover physics engine                        *)
(* (src/lib/tipover-physics.ts), the page that drives it                   *)
(* (src/app/page.tsx) and the controls that feed the page.                 *)
(*                                                                         *)
(* Numbers.  A JavaScript number is modelled as an exact rational          *)
(* [n |-> numerator, d |-> denominator], kept in lowest terms with d > 0,  *)
(* so that equal numbers are equal records.  Math.PI is the rational       *)
(* PiNum / PiDen.                                                          *)
(*                                                                         *)
(* Angles.  An angle in (-pi, pi) is modelled by the direction it points   *)
(* in, [c |-> cos * k, s |-> sin * k] for the least positive k that makes  *)
(* both integers, so that equal angles are equal records, comparison is    *)
(* the sign of a cross product and atan2 is exact.  Angles whose sine and  *)
(* cosine are needed as numbers are taken from Pythagorean triples.        *)
(***************************************************************************)
EXTENDS Integers, Naturals, Sequences, FiniteSets, TLC

(* null: the absence of an object *)
NULL == [null |-> TRUE]

---------------------------------------------------------------------------
(* Rational arithmetic *)

Abs(x) == IF x < 0 THEN -x ELSE x

RECURSIVE GCD(_, _)
GCD(a, b) == IF b = 0 THEN a ELSE GCD(b, a % b)

R(n, d) ==
  LET g == GCD(Abs(n), Abs(d))
      sg == IF d < 0 THEN -1 ELSE 1
  IN  [n |-> sg * (n \div g), d |-> sg * (d \div g)]

Int2R(k) == [n |-> k, d |-> 1]
RZero == Int2R(0)
ROne == Int2R(1)

RAdd(a, b) ==
  LET g == GCD(a.d, b.d)
  IN  R(a.n * (b.d \div g) + b.n * (a.d \div g), (a.d \div g) * b.d)

RNeg(a) == [n |-> -a.n, d |-> a.d]
RSub(a, b) == RAdd(a, RNeg(b))

RMul(a, b) ==
  LET g1 == GCD(Abs(a.n), b.d)
      g2 == GCD(Abs(b.n), a.d)
  IN  R((a.n \div g1) * (b.n \div g2), (a.d \div g2) * (b.d \div g1))

RDiv(a, b) == RMul(a, R(b.d, b.n))

RSign(a) == IF a.n > 0 THEN 1 ELSE IF a.n < 0 THEN -1 ELSE 0
RLt(a, b) == RSign(RSub(a, b)) < 0
RLe(a, b) == RSign(RSub(a, b)) <= 0

(* Math.min, Math.max on finite numbers *)
RMin(a, b) == IF RLt(b, a) THEN b ELSE a
(* the smaller where the larger is meant *)
RMaxAsMin(a, b) == RMin(a, b)
RMax(a, b) == IF RLt(a, b) THEN b ELSE a

RSq(a) == RMul(a, a)

(* Math.sqrt on the squares of rationals with numerator and denominator up
   to MaxRoot: every argument the model passes is such a square. *)
MaxRoot == 40

ISqrt(k) == CHOOSE m \in 0..MaxRoot : m * m = k

RSqrt(a) == R(ISqrt(a.n), ISqrt(a.d))

(* Math.PI *)
PiNum == 22
PiDen == 7
PI == R(PiNum, PiDen)

---------------------------------------------------------------------------
(* Angles *)

Dir(c, s) ==
  LET g == GCD(Abs(c), Abs(s))
  IN  [c |-> c \div g, s |-> s \div g]

AngZero == [c |-> 1, s |-> 0]
(* Math.PI / 2 *)
HalfPi == [c |-> 0, s |-> 1]

AngLtOrEqual(a, b) ==
  LET ha == IF a.s < 0 THEN 0 ELSE 1
      hb == IF b.s < 0 THEN 0 ELSE 1
  IN  IF ha # hb THEN ha < hb ELSE a.c * b.s - a.s * b.c >= 0

(* a < b as real numbers in (-pi, pi): the lower half plane holds the
   negative angles; inside one half plane b is larger when it lies
   counter-clockwise of a. *)
AngLt(a, b) ==
  LET ha == IF a.s < 0 THEN 0 ELSE 1
      hb == IF b.s < 0 THEN 0 ELSE 1
  IN  IF ha # hb THEN ha < hb ELSE a.c * b.s - a.s * b.c > 0

AngLe(a, b) == a = b \/ AngLt(a, b)

AngMinSwapped(a, b) == IF AngLt(b, a) THEN a ELSE b

AngMin(a, b) == IF AngLt(b, a) THEN b ELSE a
AngMax(a, b) == IF AngLt(a, b) THEN b ELSE a

AngSubSwapped(a, b) == Dir(b.c * a.c + b.s * a.s, b.s * a.c - b.c * a.s)

(* a - b for a, b in [0, pi/2]: the direction of the difference *)
AngSub(a, b) == Dir(a.c * b.c + a.s * b.s, a.s * b.c - a.c * b.s)

(* the sign of an angle in (-pi, pi) *)
AngSign(a) == IF a.s > 0 THEN 1 ELSE IF a.s < 0 THEN -1 ELSE 0

(* Math.atan2(y, x) for rationals y, x not both zero *)
Atan2(y, x) == Dir(x.n * y.d, y.n * x.d)

Hyp(a) == ISqrt(a.c * a.c + a.s * a.s)

(* The double Math.PI / 2 lies just below pi/2: its cosine is a tiny positive
   number (6.1e-17) and its tangent the reciprocal (1.6e16), not 0 and
   infinity; at -Math.PI / 2 the cosine is the same and the tangent the
   opposite.  1 / CosHalfPiDen stands for that cosine. *)
CosHalfPiDen == 1000

Sin(a) == R(a.s, Hyp(a))
Cos(a) == IF a.c = 0 THEN R(1, CosHalfPiDen) ELSE R(a.c, Hyp(a))
Tan(a) == IF a.c = 0 THEN R(a.s * CosHalfPiDen, 1) ELSE R(a.s, a.c)


---------------------------------------------------------------------------
(* src/lib/tipover-physics.ts *)

Vector3(x, y, z) == [x |-> x, y |-> y, z |-> z]

CylinderParams(center, radius, height) ==
  [center |-> center, radius |-> radius, height |-> height]

calculateCenterOfMass(cupMass, cupCentroid, liquidVolume, liquidDensity, liquidCentroid) ==
  LET liquidMass == RMul(liquidVolume, liquidDensity)
      totalMass == RAdd(cupMass, liquidMass)
      avg(p, q) == RDiv(RAdd(RMul(cupMass, p), RMul(liquidMass, q)), totalMass)
  IN  IF totalMass = RZero
      THEN cupCentroid
      ELSE Vector3(avg(cupCentroid.x, liquidCentroid.x),
                   avg(cupCentroid.y, liquidCentroid.y),
                   avg(cupCentroid.z, liquidCentroid.z))

(* the centroid of the liquid put at the rim *)
calculateLiquidCentroidAtRim(cylinder, fillLevel) == Vector3(cylinder.center.x, RAdd(cylinder.center.y, cylinder.height), cylinder.center.z)

calculateLiquidCentroid(cylinder, fillLevel) ==
  LET liquidHeight == RMul(cylinder.height, fillLevel)
  IN  Vector3(cylinder.center.x,
              RAdd(cylinder.center.y, RDiv(liquidHeight, Int2R(2))),
              cylinder.center.z)

calculateLiquidVolumeLinear(cylinder, fillLevel) ==
  LET liquidHeight == RMul(cylinder.height, fillLevel)
  IN  RMul(RMul(PI, cylinder.radius), liquidHeight)

calculateLiquidVolume(cylinder, fillLevel) ==
  LET liquidHeight == RMul(cylinder.height, fillLevel)
  IN  RMul(RMul(PI, RSq(cylinder.radius)), liquidHeight)

criticalTipoverAngleEdgeFirst(centerOfMass, baseRadius, baseCenter) ==
  LET horizontalDist ==
        RSqrt(RAdd(RSq(RSub(centerOfMass.x, baseCenter.x)),
                   RSq(RSub(centerOfMass.z, baseCenter.z))))
      verticalDist == RSub(centerOfMass.y, baseCenter.y)
      effectiveRadius == RSub(baseRadius, horizontalDist)
  IN  IF RLe(effectiveRadius, RZero) THEN AngZero
      ELSE IF RLe(verticalDist, RZero) THEN HalfPi
      ELSE Atan2(effectiveRadius, verticalDist)

criticalTipoverAngle(centerOfMass, baseRadius, baseCenter) ==
  LET horizontalDist ==
        RSqrt(RAdd(RSq(RSub(centerOfMass.x, baseCenter.x)),
                   RSq(RSub(centerOfMass.z, baseCenter.z))))
      verticalDist == RSub(centerOfMass.y, baseCenter.y)
      effectiveRadius == RSub(baseRadius, horizontalDist)
  IN  IF RLe(verticalDist, RZero) THEN HalfPi
      ELSE IF RLe(effectiveRadius, RZero) THEN AngZero
      ELSE Atan2(effectiveRadius, verticalDist)

(* the volume of the box around the cup in place of the spill *)
volumePouredAsBox(tiltAngle, cylinder, fillLevel) == RMul(Int2R(4), RMul(RSq(cylinder.radius), cylinder.height))

volumePouredNoGuard(tiltAngle, cylinder, fillLevel) ==
  LET liquidHeight == RMul(cylinder.height, fillLevel)
      r == cylinder.radius
      rimDropOnLowSide == RMul(RMul(Int2R(2), r), Sin(tiltAngle))
      liquidHeightAboveRim ==
        RSub(RMul(liquidHeight, Cos(tiltAngle)),
             RMul(RSub(cylinder.height, liquidHeight), Tan(tiltAngle)))
      spillHeight == RMin(liquidHeightAboveRim, rimDropOnLowSide)
      spillVolume == RMul(RMul(RMul(spillHeight, r), r), Sin(tiltAngle))
  IN  IF RLe(liquidHeightAboveRim, RZero) THEN RZero
      ELSE RMax(RZero, spillVolume)

volumePoured(tiltAngle, cylinder, fillLevel) ==
  IF AngLe(tiltAngle, AngZero) THEN RZero
  ELSE
    LET liquidHeight == RMul(cylinder.height, fillLevel)
        r == cylinder.radius
        rimDropOnLowSide == RMul(RMul(Int2R(2), r), Sin(tiltAngle))
        liquidHeightAboveRim ==
          RSub(RMul(liquidHeight, Cos(tiltAngle)),
               RMul(RSub(cylinder.height, liquidHeight), Tan(tiltAngle)))
        spillHeight == RMin(liquidHeightAboveRim, rimDropOnLowSide)
        spillVolume == RMul(RMul(RMul(spillHeight, r), r), Sin(tiltAngle))
    IN  IF RLe(liquidHeightAboveRim, RZero) THEN RZero
        ELSE RMax(RZero, spillVolume)

(* A number of degrees obtained from an angle in radians: the angle times
   the factor 180 / Math.PI. *)
toDegrees(radians) ==
  [angle |-> radians, factor |-> RDiv(Int2R(180), PI)]

DegSign(m) == AngSign(m.angle) * RSign(m.factor)

DefaultCupMass == R(3, 10)
DefaultLiquidDensity == Int2R(1000)

getLiquidSurfaceWhenTilted(tiltAngle, cylinder, fillLevel) ==
  LET liquidHeight == RMul(cylinder.height, fillLevel)
      r == cylinder.radius
      heightChange == RMul(r, Tan(tiltAngle))
      highSide == RAdd(liquidHeight, heightChange)
      lowSide == RSub(liquidHeight, heightChange)
      spilling == RLt(cylinder.height, highSide) /\ RLt(lowSide, cylinder.height)
  IN  [highSide |-> RMin(highSide, cylinder.height),
       lowSide |-> RMax(RZero, lowSide),
       spilling |-> spilling \/ RLe(lowSide, RZero)]

calculatePhysicsState(cylinder, fillLevel0, tiltAngle0, cupMass, liquidDensity) ==
  LET fillLevel == RMax(RZero, RMin(ROne, fillLevel0))
      tiltAngle == AngMax(AngZero, AngMin(HalfPi, tiltAngle0))
      cupCentroid ==
        Vector3(cylinder.center.x,
                RAdd(cylinder.center.y, RDiv(cylinder.height, Int2R(2))),
                cylinder.center.z)
      liquidVolume == calculateLiquidVolume(cylinder, fillLevel)
      liquidCentroid == calculateLiquidCentroid(cylinder, fillLevel)
      centerOfMass ==
        calculateCenterOfMass(cupMass, cupCentroid, liquidVolume,
                              liquidDensity, liquidCentroid)
      baseCenter ==
        Vector3(cylinder.center.x, cylinder.center.y, cylinder.center.z)
      criticalAngle ==
        criticalTipoverAngle(centerOfMass, cylinder.radius, baseCenter)
      poured == volumePoured(tiltAngle, cylinder, fillLevel)
      isStable == AngLt(tiltAngle, criticalAngle)
      stabilityMargin == toDegrees(AngSub(criticalAngle, tiltAngle))
  IN  [fillLevel |-> fillLevel,
       tiltAngle |-> tiltAngle,
       centerOfMass |-> centerOfMass,
       criticalTipoverAngle |-> criticalAngle,
       liquidVolume |-> liquidVolume,
       volumePoured |-> poured,
       isStable |-> isStable,
       stabilityMargin |-> stabilityMargin]

---------------------------------------------------------------------------
(* Calls of the physics engine.  call holds the call just made (its
   operation, arguments and return value) until the caller has taken the
   result; sweep holds the states returned
   while one cup is tilted further and further, everything else fixed. *)

VARIABLES call, sweep

physVars == <<call, sweep>>

(* The state of the page that makes these calls: of Home, its two memoised
   values, and of the FileUpload it shows (src/app/page.tsx). *)
VARIABLES plyBuffer, parsedPly, volumeResult, isLoading, fillLevel, tiltAngle, error, cylinderAdjustments, showCylinderControls, adjustedCylinder, physicsState, fileName, reading

pageVars == <<plyBuffer, parsedPly, volumeResult, isLoading, fillLevel, tiltAngle, error, cylinderAdjustments, showCylinderControls, adjustedCylinder, physicsState, fileName, reading>>

vars == <<call, sweep, plyBuffer, parsedPly, volumeResult, isLoading, fillLevel, tiltAngle, error, cylinderAdjustments, showCylinderControls, adjustedCylinder, physicsState, fileName, reading>>

MaxSweep == 4

Centers == {Vector3(RZero, RZero, RZero), Vector3(Int2R(1), Int2R(2), Int2R(-1))}
Radii == {RZero, Int2R(1), Int2R(3)}
Heights == {RZero, Int2R(2), Int2R(8)}
Cylinders == {CylinderParams(c, r, h) : c \in Centers, r \in Radii, h \in Heights}
Fills == {R(-1, 2), RZero, R(13, 20), ROne, R(3, 2)}
(* 0, 22.6, 36.9, 53.1, 67.4 degrees and Math.PI / 2 *)
Tilts == {AngZero, Dir(12, 5), Dir(4, 3), Dir(3, 4), Dir(5, 12), HalfPi}
(* and -90, -36.9 and 126.9 degrees *)
RawTilts == Tilts \cup {Dir(0, -1), Dir(4, -3), Dir(-3, 4)}
Masses == {RZero, DefaultCupMass}
Densities == {RZero, DefaultLiquidDensity}
Offsets == {Vector3(RZero, y, RZero) : y \in {Int2R(-1), RZero, Int2R(4)}} \cup {Vector3(Int2R(3), y, Int2R(4)) : y \in {Int2R(-1), RZero, Int2R(1), Int2R(4)}} \cup {Vector3(RZero, Int2R(4), Int2R(3))}
BaseRadii == {Int2R(-1), RZero, Int2R(3), Int2R(5), Int2R(6), Int2R(8)}

VAdd(p, q) == Vector3(RAdd(p.x, q.x), RAdd(p.y, q.y), RAdd(p.z, q.z))

NoCall ==
  [op |-> "none", cylinder |-> NULL, fillLevel |-> NULL, tiltAngle |-> NULL,
   cupMass |-> NULL, liquidDensity |-> NULL, centerOfMass |-> NULL,
   baseRadius |-> NULL, baseCenter |-> NULL, ret |-> NULL]

PhysInit == call = NoCall /\ sweep = << >>

CallCalculatePhysicsState(c, f, t, m, d) ==
  /\ call.op = "none"
  /\ call' = [NoCall EXCEPT !.op = "calculatePhysicsState", !.cylinder = c,
                !.fillLevel = f, !.tiltAngle = t, !.cupMass = m,
                !.liquidDensity = d,
                !.ret = calculatePhysicsState(c, f, t, m, d)]
  /\ sweep' = <<call'.ret>>
  /\ UNCHANGED pageVars

(* the same cup, fill and masses, tilted further *)
TiltFurther(t) ==
  /\ call.op = "calculatePhysicsState"
  /\ Len(sweep) < MaxSweep
  /\ AngLe(AngZero, call.tiltAngle)
  /\ AngLt(call.tiltAngle, t)
  /\ call' = [call EXCEPT !.tiltAngle = t,
                !.ret = calculatePhysicsState(call.cylinder, call.fillLevel, t,
                                              call.cupMass, call.liquidDensity)]
  /\ sweep' = Append(sweep, call'.ret)
  /\ UNCHANGED pageVars

CallVolumePoured(t, c, f) ==
  /\ call.op = "none"
  /\ call' = [NoCall EXCEPT !.op = "volumePoured", !.tiltAngle = t,
                !.cylinder = c, !.fillLevel = f, !.ret = volumePoured(t, c, f)]
  /\ sweep' = << >>
  /\ UNCHANGED pageVars

CallCriticalTipoverAngle(com, baseRadius, baseCenter) ==
  /\ call.op = "none"
  /\ call' = [NoCall EXCEPT !.op = "criticalTipoverAngle",
                !.centerOfMass = com, !.baseRadius = baseRadius,
                !.baseCenter = baseCenter,
                !.ret = criticalTipoverAngle(com, baseRadius, baseCenter)]
  /\ sweep' = << >>
  /\ UNCHANGED pageVars

CallCalculateLiquidVolume(c, f) ==
  /\ call.op = "none"
  /\ call' = [NoCall EXCEPT !.op = "calculateLiquidVolume", !.cylinder = c,
                !.fillLevel = f, !.ret = calculateLiquidVolume(c, f)]
  /\ sweep' = << >>
  /\ UNCHANGED pageVars

(* the caller drops the returned value; the engine keeps nothing *)
CallGetLiquidSurfaceWhenTilted(t, c, f) ==
  /\ call.op = "none"
  /\ call' = [NoCall EXCEPT !.op = "getLiquidSurfaceWhenTilted", !.tiltAngle = t,
                !.cylinder = c, !.fillLevel = f,
                !.ret = getLiquidSurfaceWhenTilted(t, c, f)]
  /\ sweep' = << >>
  /\ UNCHANGED pageVars

Return ==
  /\ call.op # "none"
  /\ call' = NoCall
  /\ sweep' = << >>
  /\ UNCHANGED pageVars

PhysNext ==
  \/ \E c \in Cylinders, f \in Fills, t \in RawTilts, m \in Masses, d \in Densities : CallCalculatePhysicsState(c, f, t, m, d)
  \/ \E t \in Tilts : TiltFurther(t)
  \/ \E t \in RawTilts, c \in Cylinders, f \in Fills : CallVolumePoured(t, c, f)
  \/ \E t \in RawTilts, c \in Cylinders, f \in Fills : CallGetLiquidSurfaceWhenTilted(t, c, f)
  \/ \E o \in Offsets, r \in BaseRadii, b \in Centers : CallCriticalTipoverAngle(VAdd(b, o), r, b)
  \/ \E c \in Cylinders, f \in Fills : CallCalculateLiquidVolume(c, f)
  \/ Return

---------------------------------------------------------------------------
(* Properties of the physics engine *)

IsPhysicsCall == call.op = "calculatePhysicsState"

RPos(x) == x.n > 0
RNonNeg(x) == x.n >= 0

(* a < b for two angles of [0, pi/2] *)
Smaller(a, b) == a.s * b.c < b.s * a.c

InQuarter(a) == a.c >= 0 /\ a.s >= 0

RealCup ==
  /\ IsPhysicsCall
  /\ RPos(call.cylinder.radius) /\ RPos(call.cylinder.height)
  /\ RNonNeg(call.cupMass) /\ RNonNeg(call.liquidDensity)

Flips == {i \in 1..(Len(sweep) - 1) : sweep[i].isStable # sweep[i + 1].isStable}

(* C1: while one cup (radius > 0, height > 0, non-negative cup mass and
   liquid density, any fill level) is tilted further and further from 0 to
   pi/2, criticalTipoverAngle stays the same, isStable is true at tilt 0 and
   false at tilt pi/2, never returns from false to true, changes exactly
   once over the whole way, and the first unstable tilt is the first one
   that is >= criticalTipoverAngle. *)
C1_StableFlipsOnce ==
  RealCup =>
    /\ \A i \in 1..Len(sweep) :
         /\ sweep[i].criticalTipoverAngle = sweep[1].criticalTipoverAngle
         /\ sweep[i].tiltAngle = AngZero => sweep[i].isStable
         /\ sweep[i].tiltAngle = HalfPi => ~sweep[i].isStable
         /\ sweep[i].isStable => \A j \in 1..i : sweep[j].isStable
         /\ ~sweep[i].isStable =>
              ~Smaller(sweep[i].tiltAngle, sweep[i].criticalTipoverAngle)
         /\ (~sweep[i].isStable /\ i > 1 /\ sweep[i - 1].isStable) =>
              Smaller(sweep[i - 1].tiltAngle, sweep[i].criticalTipoverAngle)
    /\ (sweep[1].tiltAngle = AngZero /\ sweep[Len(sweep)].tiltAngle = HalfPi) =>
         Cardinality(Flips) = 1

(* a cup tilted from 0 through its critical angle to pi/2 *)
C1_Witness ==
  /\ RealCup
  /\ Len(sweep) = 3
  /\ sweep[1].tiltAngle = AngZero
  /\ sweep[2].tiltAngle = sweep[2].criticalTipoverAngle
  /\ sweep[3].tiltAngle = HalfPi
  /\ sweep[1].isStable /\ ~sweep[2].isStable

(* C2: in every returned PhysicsState isStable holds exactly when
   stabilityMargin > 0; at a tilt equal to criticalTipoverAngle isStable is
   false and stabilityMargin is 0; at a tilt above it stabilityMargin is
   negative. *)
C2_StableIffPositiveMargin ==
  IsPhysicsCall =>
    /\ call.ret.isStable <=> DegSign(call.ret.stabilityMargin) > 0
    /\ call.ret.tiltAngle = call.ret.criticalTipoverAngle =>
         ~call.ret.isStable /\ DegSign(call.ret.stabilityMargin) = 0
    /\ Smaller(call.ret.criticalTipoverAngle, call.ret.tiltAngle) =>
         DegSign(call.ret.stabilityMargin) < 0

(* a state returned for a tilt equal to a critical angle inside (0, pi/2) *)
C2_Witness ==
  /\ IsPhysicsCall
  /\ call.ret.tiltAngle = call.ret.criticalTipoverAngle
  /\ call.ret.tiltAngle \notin {AngZero, HalfPi}
  /\ DegSign(call.ret.stabilityMargin) = 0

Clamp01(f) == IF f.n < 0 THEN RZero ELSE IF f.n > f.d THEN ROne ELSE f

ClampQuarter(t) == IF t.s < 0 THEN AngZero ELSE IF t.c < 0 THEN HalfPi ELSE t

(* C3: the returned fillLevel is the argument clamped to [0, 1], the
   returned tiltAngle the argument clamped to [0, pi/2], and liquidVolume,
   centerOfMass, volumePoured, isStable and stabilityMargin are those of the
   clamped values. *)
C3_ComputedFromClamped ==
  IsPhysicsCall =>
    LET cf == Clamp01(call.fillLevel)
        ct == ClampQuarter(call.tiltAngle)
        cyl == call.cylinder
        centroid == Vector3(cyl.center.x, RAdd(cyl.center.y, RDiv(cyl.height, Int2R(2))), cyl.center.z)
    IN  /\ call.ret.fillLevel = cf
        /\ call.ret.tiltAngle = ct
        /\ call.ret.liquidVolume = calculateLiquidVolume(cyl, cf)
        /\ call.ret.centerOfMass =
             calculateCenterOfMass(call.cupMass, centroid,
                                   calculateLiquidVolume(cyl, cf),
                                   call.liquidDensity,
                                   calculateLiquidCentroid(cyl, cf))
        /\ call.ret.volumePoured = volumePoured(ct, cyl, cf)
        /\ call.ret.isStable <=> Smaller(ct, call.ret.criticalTipoverAngle)
        /\ call.ret.stabilityMargin.angle = AngSub(call.ret.criticalTipoverAngle, ct)

(* a call with both arguments out of range, on a cup that holds liquid *)
C3_Witness ==
  /\ RealCup
  /\ call.fillLevel = R(3, 2)
  /\ call.tiltAngle = Dir(-3, 4)
  /\ call.ret.fillLevel = ROne
  /\ call.ret.tiltAngle = HalfPi

(* C8: volumePoured returns exactly 0 for every tilt <= 0, whatever the
   cylinder and the fill level, and every PhysicsState whose tilt clamps to
   0 has volumePoured = 0. *)
C8_NoSpillWhenUpright ==
  /\ (call.op = "volumePoured" /\ (call.tiltAngle.s < 0 \/ call.tiltAngle = AngZero)) =>
       call.ret = RZero
  /\ (IsPhysicsCall /\ call.ret.tiltAngle = AngZero) =>
       call.ret.volumePoured = RZero

(* volumePoured called with a negative tilt on a full cup *)
C8_Witness ==
  /\ call.op = "volumePoured"
  /\ call.tiltAngle = Dir(4, -3)
  /\ RPos(call.cylinder.radius) /\ RPos(call.cylinder.height)
  /\ call.fillLevel = ROne
  /\ call.ret = RZero

HorizontalOffset ==
  RSqrt(RAdd(RSq(RSub(call.centerOfMass.x, call.baseCenter.x)),
             RSq(RSub(call.centerOfMass.z, call.baseCenter.z))))

VerticalOffset == RSub(call.centerOfMass.y, call.baseCenter.y)

(* C9: criticalTipoverAngle returns pi/2 when the vertical offset of the
   center of mass is <= 0, even with a horizontal offset >= baseRadius;
   returns 0 when the vertical offset is > 0 and the horizontal offset is
   >= baseRadius; otherwise returns atan2(baseRadius - horizontal offset,
   vertical offset), strictly between 0 and pi/2.  The result is always
   within [0, pi/2]. *)
C9_CriticalAngleCases ==
  call.op = "criticalTipoverAngle" =>
    /\ ~RPos(VerticalOffset) => call.ret = HalfPi
    /\ (RPos(VerticalOffset) /\ ~RPos(RSub(call.baseRadius, HorizontalOffset))) =>
         call.ret = AngZero
    /\ (RPos(VerticalOffset) /\ RPos(RSub(call.baseRadius, HorizontalOffset))) =>
         /\ call.ret = Atan2(RSub(call.baseRadius, HorizontalOffset), VerticalOffset)
         /\ call.ret.c > 0 /\ call.ret.s > 0
    /\ InQuarter(call.ret)

(* the center of mass below the base and beyond the base edge *)
C9_Witness ==
  /\ call.op = "criticalTipoverAngle"
  /\ ~RPos(VerticalOffset)
  /\ ~RPos(RSub(call.baseRadius, HorizontalOffset))
  /\ RPos(call.baseRadius)
  /\ call.ret = HalfPi

UnitFills == {f \in Fills : RNonNeg(f) /\ f.n <= f.d}

FullVolume(cyl) == RMul(RMul(PI, RMul(cyl.radius, cyl.radius)), cyl.height)

(* C10: for a cylinder with radius > 0 and height > 0 the liquid volume is
   strictly increasing in fillLevel over [0, 1], is 0 at fillLevel 0 and
   pi * r^2 * h at fillLevel 1; every PhysicsState of such a cylinder has
   0 <= liquidVolume <= pi * r^2 * h. *)
C10_LiquidVolumeMonotone ==
  /\ (/\ call.op = "calculateLiquidVolume"
      /\ RPos(call.cylinder.radius) /\ RPos(call.cylinder.height)
      /\ call.fillLevel \in UnitFills) =>
       /\ call.fillLevel = RZero => call.ret = RZero
       /\ call.fillLevel = ROne => call.ret = FullVolume(call.cylinder)
       /\ \A g \in UnitFills :
            g.n * call.fillLevel.d > call.fillLevel.n * g.d =>
              RPos(RSub(calculateLiquidVolume(call.cylinder, g), call.ret))
  /\ (IsPhysicsCall /\ RPos(call.cylinder.radius) /\ RPos(call.cylinder.height)) =>
       /\ RNonNeg(call.ret.liquidVolume)
       /\ RNonNeg(RSub(FullVolume(call.cylinder), call.ret.liquidVolume))

(* the volume of a full cup of radius 3 *)
C10_Witness ==
  /\ call.op = "calculateLiquidVolume"
  /\ call.cylinder.radius = Int2R(3) /\ RPos(call.cylinder.height)
  /\ call.fillLevel = ROne
  /\ call.ret = FullVolume(call.cylinder)

---------------------------------------------------------------------------
(* src/unnamed/part_002 (lib/cylinder-fitting): circle and cylinder fits.

   A point cloud is held by what the fits read from it: the number of
   points, the bounds, the index of the topmost dense band, the number of
   points in the rim slice and the dominant eigenvector.  The random trials
   of fitCircleRANSAC are held by their outcome: the solution [a, b, c] of
   the normal equations of the circle the trials and the refit end with, or
   NULL when no trial gave a circle. *)

circleFromSolutionNoCheck(sol) ==
  LET rsq == RAdd(sol.c, RAdd(RSq(sol.a), RSq(sol.b)))
  IN  IF rsq.n < 0 THEN NULL
      ELSE [center |-> <<sol.a, sol.b>>, radius |-> RSqrt(rsq)]

(* fitCircle2D from the solved system on: the radius and its check.
   Math.sqrt of a negative number is NaN, which is not finite. *)
circleFromSolution(sol) ==
  LET rsq == RAdd(sol.c, RAdd(RSq(sol.a), RSq(sol.b)))
  IN  IF rsq.n < 0 THEN NULL
      ELSE IF RLe(RSqrt(rsq), RZero) THEN NULL
      ELSE [center |-> <<sol.a, sol.b>>, radius |-> RSqrt(rsq)]

MinCirclePoints == 3

fitCircleRANSAC(nPoints, best) ==
  IF nPoints < MinCirclePoints THEN NULL
  ELSE IF best = NULL THEN NULL
  ELSE circleFromSolution(best)

MinCylinderPoints == 10

(* The axis is only copied to the result: the projection is onto XZ and the
   height is the extent in Y whatever the axis. *)
fitCylinderAxis(ply, axis, best, avgError) ==
  IF ply.vertexCount < MinCylinderPoints THEN NULL
  ELSE
    LET circle == fitCircleRANSAC(ply.vertexCount, best)
        minY == ply.bounds.min[2]
        maxY == ply.bounds.max[2]
        height == RSub(maxY, minY)
    IN  IF circle = NULL THEN NULL
        ELSE IF RLe(height, RZero) THEN NULL
        ELSE [center |-> <<circle.center[1], minY, circle.center[2]>>,
              radius |-> circle.radius,
              height |-> height,
              axis |-> axis,
              confidence |-> RMax(RZero, RSub(ROne, RDiv(avgError, circle.radius)))]

(* a fit over all points that never gives a cylinder *)
fitCylinderNever(ply, best, avgError) == NULL

(* the call that leaves the axis to its default, [0, 1, 0] *)
fitCylinder(ply, best, avgError) == fitCylinderAxis(ply, <<RZero, ROne, RZero>>, best, avgError)

---------------------------------------------------------------------------
(* src/lib/volume-detection.ts *)

(* the quotient 0 / 0: every comparison with it is false *)
NaN == [n |-> 0, d |-> 0]
IsNaN(x) == x.d = 0

detectOrientation(principal) ==
  LET verticalDot == IF principal[2].n < 0 THEN RNeg(principal[2]) ELSE principal[2]
  IN  IF ~IsNaN(verticalDot) /\ RLt(R(7, 10), verticalDot)
      THEN [axis |-> <<RZero, ROne, RZero>>,
            orientation |-> IF principal[2].n > 0 THEN "upright" ELSE "inverted"]
      ELSE [axis |-> principal, orientation |-> "sideways"]

NumSlices == 20

(* ply.denseBand is the index of the topmost band whose count exceeds the
   threshold, -1 when there is none *)
findRimHeight(ply, minY, maxY) ==
  LET sliceThickness == RDiv(RSub(maxY, minY), Int2R(NumSlices))
  IN  IF ply.denseBand >= 0
      THEN RAdd(minY, RMul(R(2 * ply.denseBand + 1, 2), sliceThickness))
      ELSE maxY

(* a minimum that lets through every cloud fitCylinder accepts *)
MinDetectPointsLowered == MinCylinderPoints
MinDetectPoints == 100

detectVolume(ply, rnd) ==
  IF ply.vertexCount < MinDetectPoints THEN NULL
  ELSE
    LET o == detectOrientation(ply.principal)
        minY == ply.bounds.min[2]
        maxY == ply.bounds.max[2]
        rimHeight == findRimHeight(ply, minY, maxY)
        rimCircle == fitCircleRANSAC(ply.rimCount, rnd.rim)
        fallback == fitCylinder(ply, rnd.all, rnd.avgError)
        interiorRadius == RMul(rimCircle.radius, R(85, 100))
        baseHeight == minY
        height == RSub(rimHeight, baseHeight)
        volume == RMul(RMul(PI, RSq(interiorRadius)), height)
    IN  IF rimCircle = NULL
        THEN IF fallback = NULL THEN NULL
             ELSE [cylinder |-> fallback,
                   rimHeight |-> RAdd(fallback.center[2], fallback.height),
                   baseHeight |-> fallback.center[2],
                   interiorVolume |-> RMul(RMul(PI, RSq(fallback.radius)), fallback.height),
                   orientation |-> o.orientation]
        ELSE [cylinder |-> [center |-> <<rimCircle.center[1], baseHeight, rimCircle.center[2]>>,
                            radius |-> interiorRadius,
                            height |-> RMax(R(1, 100), height),
                            axis |-> o.axis,
                            confidence |-> R(8, 10)],
              rimHeight |-> rimHeight,
              baseHeight |-> baseHeight,
              interiorVolume |-> RMax(RZero, volume),
              orientation |-> o.orientation]

estimateCupMass(outerRadius, height, wallThickness, density) ==
  LET innerRadius == RSub(outerRadius, wallThickness)
      shellVolume == RMul(RMul(PI, RSub(RSq(outerRadius), RSq(innerRadius))), height)
      baseVolume == RMul(RMul(PI, RSq(outerRadius)), wallThickness)
  IN  RMul(RAdd(shellVolume, baseVolume), density)

DefaultWallThickness == R(5, 1000)
(* the density of the liquid in place of that of the cup *)
DensityOfLiquid == DefaultLiquidDensity
DefaultCeramicDensity == Int2R(2400)

(* lib/ply-parser: a buffer is held by whether it starts with the magic
   number "ply" and by the point cloud its records decode to *)
Threw == [threw |-> TRUE]

parsePlyFile(buffer) == IF ~buffer.magic THEN Threw ELSE buffer.ply

---------------------------------------------------------------------------
(* src/app/page.tsx, src/components/FileUpload.tsx,
   src/components/CylinderControls.tsx, src/components/PhysicsControls.tsx

   The handlers of Home and of the components it shows.  A handler runs to
   its end and the page renders before the next event. *)

(* a string state that is null *)
NoString == "null"

defaultAdjustments ==
  [rotationX |-> RZero, rotationY |-> RZero, rotationZ |-> RZero,
   offsetX |-> RZero, offsetY |-> RZero, offsetZ |-> RZero,
   radiusScale |-> ROne, heightScale |-> ROne]

estimateUnitScale(cylinder) ==
  IF RLt(cylinder.height, R(5, 10)) THEN ROne
  ELSE IF RLt(cylinder.height, Int2R(50)) THEN R(1, 100)
  ELSE R(1, 1000)

(* the slider positions the model moves the tilt slider to, in degrees, and
   the angle toRadians gives for each: the nearest angle with a rational
   sine and cosine (36.87 degrees for 37) *)
TiltDegrees == {0, 37, 90}

toRadians(degrees) ==
  CASE degrees = 0 -> AngZero
    [] degrees = 23 -> Dir(12, 5)
    [] degrees = 37 -> Dir(4, 3)
    [] degrees = 53 -> Dir(3, 4)
    [] degrees = 67 -> Dir(5, 12)
    [] degrees = 90 -> HalfPi

(* the value of the adjustedCylinder memo *)
adjustedCylinderValue(vr, adj) ==
  IF vr = NULL THEN NULL
  ELSE [vr.cylinder EXCEPT
          !.center = <<RAdd(vr.cylinder.center[1], adj.offsetX),
                       RAdd(vr.cylinder.center[2], adj.offsetY),
                       RAdd(vr.cylinder.center[3], adj.offsetZ)>>,
          !.radius = RMul(vr.cylinder.radius, adj.radiusScale),
          !.height = RMul(vr.cylinder.height, adj.heightScale)]

(* the value of the physicsState memo *)
(* the cup mass of the physicsState memo *)
cupMassValue(ac) ==
  LET unitScale == estimateUnitScale(ac)
  IN  estimateCupMass(RMul(ac.radius, unitScale), RMul(ac.height, unitScale),
                      DefaultWallThickness, DefaultCeramicDensity)

physicsStateValue(ac, fill, tilt) ==
  IF ac = NULL THEN NULL
  ELSE
    LET cylinderParams ==
          CylinderParams(Vector3(ac.center[1], ac.center[2], ac.center[3]),
                         ac.radius, ac.height)
        cupMass == cupMassValue(ac)
    IN  calculatePhysicsState(cylinderParams, fill, toRadians(tilt), cupMass,
                              Int2R(1000))

RenderStaleTilt ==
  /\ adjustedCylinder' =
       IF volumeResult' = volumeResult /\ cylinderAdjustments' = cylinderAdjustments
       THEN adjustedCylinder
       ELSE adjustedCylinderValue(volumeResult', cylinderAdjustments')
  /\ physicsState' =
       IF adjustedCylinder' = adjustedCylinder /\ fillLevel' = fillLevel
       THEN physicsState
       ELSE physicsStateValue(adjustedCylinder', fillLevel', tiltAngle')

(* the render that follows a state change: each useMemo keeps its value
   unless one of its dependencies changed *)
Render ==
  /\ adjustedCylinder' =
       IF volumeResult' = volumeResult /\ cylinderAdjustments' = cylinderAdjustments
       THEN adjustedCylinder
       ELSE adjustedCylinderValue(volumeResult', cylinderAdjustments')
  /\ physicsState' =
       IF adjustedCylinder' = adjustedCylinder /\ fillLevel' = fillLevel /\ tiltAngle' = tiltAngle
       THEN physicsState
       ELSE physicsStateValue(adjustedCylinder', fillLevel', tiltAngle')

(* Point clouds *)
Cloud(n, lo, hi, band, rim, principal) ==
  [vertexCount |-> n, bounds |-> [min |-> lo, max |-> hi], denseBand |-> band,
   rimCount |-> rim, principal |-> principal]

Up == <<RZero, ROne, RZero>>
Side == <<ROne, RZero, RZero>>
Low == <<Int2R(-2), RZero, Int2R(-2)>>

(* a cup one unit tall whose rim lies in band 17 of 20; a sheet a hundredth
   of a unit thick; a cloud of 50 points; a cloud in one horizontal plane,
   where every band and the rim slice are empty *)
CupCloud == Cloud(120, Low, <<Int2R(2), ROne, Int2R(2)>>, 17, 30, Up)
ThinCloud == Cloud(120, Low, <<Int2R(2), R(1, 100), Int2R(2)>>, 19, 30, Side)
SmallCloud == Cloud(50, Low, <<Int2R(2), ROne, Int2R(2)>>, 17, 10, Up)
FlatCloud == Cloud(120, Low, <<Int2R(2), RZero, Int2R(2)>>, -1, 0, Side)

PlyFile(stem, ext, magic, ply) ==
  [name |-> [stem |-> stem, ext |-> ext], buffer |-> [magic |-> magic, ply |-> ply]]

Files ==
  {PlyFile("cup", "ply", TRUE, CupCloud), PlyFile("thin", "ply", TRUE, ThinCloud),
   PlyFile("small", "ply", TRUE, SmallCloud),
   PlyFile("bad", "ply", FALSE, NULL), PlyFile("notes", "txt", TRUE, CupCloud)}

(* Outcomes of the random trials: for the rim slice and for all points *)
Sol(a, b, c) == [a |-> a, b |-> b, c |-> c]

(* a rim of radius 20/17 about the origin and a body of radius 1/2; no
   rim circle and a body of radius 1/2 about (1, 0); a rim of radius 0 and
   a body of negative squared radius *)
Outcomes ==
  {[rim |-> Sol(RZero, RZero, R(400, 289)), all |-> Sol(RZero, RZero, R(1, 4)), avgError |-> R(1, 10)],
   [rim |-> NULL, all |-> Sol(ROne, RZero, R(-3, 4)), avgError |-> R(1, 10)],
   [rim |-> Sol(ROne, Int2R(2), Int2R(-5)), all |-> Sol(RZero, RZero, Int2R(-1)), avgError |-> Int2R(5)]}

MaxReading == 1

PageInit ==
  /\ plyBuffer = NULL
  /\ parsedPly = NULL
  /\ volumeResult = NULL
  /\ isLoading = FALSE
  /\ fillLevel = R(65, 100)
  /\ tiltAngle = 0
  /\ error = NoString
  /\ cylinderAdjustments = defaultAdjustments
  /\ showCylinderControls = FALSE
  /\ adjustedCylinder = NULL
  /\ physicsState = NULL
  /\ fileName = NoString
  /\ reading = {}

(* FileUpload.handleFile up to its await: the read of the file starts.
   Nothing in the code limits the reads in flight; limit bounds them. *)
handleFileWithin(file, limit) ==
  /\ ~isLoading
  /\ Cardinality(reading) < limit
  /\ file \notin reading
  /\ IF file.name.ext # "ply"
     THEN UNCHANGED <<fileName, reading>>
     ELSE fileName' = file.name.stem /\ reading' = reading \cup {file}
  /\ UNCHANGED <<plyBuffer, parsedPly, volumeResult, isLoading, fillLevel, tiltAngle, error, cylinderAdjustments, showCylinderControls, adjustedCylinder, physicsState>>
  /\ UNCHANGED physVars

handleFile(file) == handleFileWithin(file, MaxReading)

(* the read ends and handleFile calls onFileLoaded: handleFileLoaded.  The
   FileUpload of the upload view is unmounted when plyBuffer is first set;
   the one of the main view starts with no file name. *)
handleFileLoaded(file, rnd) ==
  LET parsed == parsePlyFile(file.buffer)
      volume == detectVolume(parsed, rnd)
  IN  /\ file \in reading
      /\ reading' = reading \ {file}
      /\ isLoading' = FALSE
      /\ cylinderAdjustments' = defaultAdjustments
      /\ IF parsed = Threw
         THEN /\ error' = "Failed to parse PLY file. Make sure it's a valid .ply format."
              /\ UNCHANGED <<parsedPly, plyBuffer, volumeResult, fileName>>
         ELSE /\ parsedPly' = parsed
              /\ plyBuffer' = file.buffer
              /\ fileName' = IF plyBuffer = NULL THEN NoString ELSE fileName
              /\ IF volume # NULL
                 THEN volumeResult' = volume /\ error' = NoString
                 ELSE error' = "Could not detect cup interior. Try a different PLY file." /\ UNCHANGED volumeResult
      /\ UNCHANGED <<fillLevel, tiltAngle, showCylinderControls>>
      /\ Render
      /\ UNCHANGED physVars

handleResetKeepsAdjustments ==
  /\ volumeResult # NULL
  /\ fillLevel' = R(65, 100)
  /\ tiltAngle' = 0
  /\ UNCHANGED <<cylinderAdjustments, plyBuffer, parsedPly, volumeResult, isLoading, error, showCylinderControls, fileName, reading>>
  /\ Render
  /\ UNCHANGED physVars

(* the Reset button of the header, shown once there is a detection *)
handleReset ==
  /\ volumeResult # NULL
  /\ fillLevel' = R(65, 100)
  /\ tiltAngle' = 0
  /\ cylinderAdjustments' = defaultAdjustments
  /\ UNCHANGED <<plyBuffer, parsedPly, volumeResult, isLoading, error, showCylinderControls, fileName, reading>>
  /\ Render
  /\ UNCHANGED physVars

FillChoices == {R(65, 100), ROne}

(* PhysicsControls: the fill slider *)
onFillLevelChange(level) ==
  /\ plyBuffer # NULL /\ volumeResult # NULL
  /\ fillLevel' = level
  /\ UNCHANGED <<plyBuffer, parsedPly, volumeResult, isLoading, tiltAngle, error, cylinderAdjustments, showCylinderControls, fileName, reading>>
  /\ Render
  /\ UNCHANGED physVars

(* PhysicsControls: the tilt slider *)
onTiltAngleChange(angle) ==
  /\ plyBuffer # NULL /\ volumeResult # NULL
  /\ tiltAngle' = angle
  /\ UNCHANGED <<plyBuffer, parsedPly, volumeResult, isLoading, fillLevel, error, cylinderAdjustments, showCylinderControls, fileName, reading>>
  /\ Render
  /\ UNCHANGED physVars

toggleCylinderControls ==
  /\ plyBuffer # NULL
  /\ showCylinderControls' = ~showCylinderControls
  /\ UNCHANGED <<plyBuffer, parsedPly, volumeResult, isLoading, fillLevel, tiltAngle, error, cylinderAdjustments, fileName, reading>>
  /\ Render
  /\ UNCHANGED physVars

(* the offset sliders run from -range to range, range the largest extent
   of the bounds *)
OffsetRange ==
  LET ext(i) == RSub(parsedPly.bounds.max[i], parsedPly.bounds.min[i])
  IN  IF parsedPly = NULL THEN ROne ELSE RMax(ext(1), RMax(ext(2), ext(3)))

(* the slider positions the model moves each slider to *)
SliderValues(field) ==
  CASE field \in {"rotationX", "rotationY", "rotationZ"} -> {RZero}
    [] field = "offsetX" -> {RZero, RDiv(OffsetRange, Int2R(2))}
    [] field \in {"offsetY", "offsetZ"} -> {RZero}
    [] field = "radiusScale" -> {R(1, 2), ROne}
    [] field = "heightScale" -> {R(2, 5), ROne}

Fields == {"rotationX", "rotationY", "rotationZ", "offsetX", "offsetY", "offsetZ", "radiusScale", "heightScale"}

(* CylinderControls.updateField, from a slider *)
updateField(field, value) ==
  /\ plyBuffer # NULL /\ showCylinderControls /\ volumeResult # NULL
  /\ cylinderAdjustments' = [cylinderAdjustments EXCEPT ![field] = value]
  /\ UNCHANGED <<plyBuffer, parsedPly, volumeResult, isLoading, fillLevel, tiltAngle, error, showCylinderControls, fileName, reading>>
  /\ Render
  /\ UNCHANGED physVars

(* CylinderControls: the Reset Adjustments button *)
resetAdjustments ==
  /\ plyBuffer # NULL /\ showCylinderControls /\ volumeResult # NULL
  /\ cylinderAdjustments' = defaultAdjustments
  /\ UNCHANGED <<plyBuffer, parsedPly, volumeResult, isLoading, fillLevel, tiltAngle, error, showCylinderControls, fileName, reading>>
  /\ Render
  /\ UNCHANGED physVars

PageNext ==
  \/ \E file \in Files : handleFile(file)
  \/ \E file \in Files, rnd \in Outcomes : handleFileLoaded(file, rnd)
  \/ handleReset
  \/ \E level \in FillChoices : onFillLevelChange(level)
  \/ \E angle \in TiltDegrees : onTiltAngleChange(angle)
  \/ toggleCylinderControls
  \/ \E field \in Fields : \E value \in SliderValues(field) : updateField(field, value)
  \/ resetAdjustments

Init == PhysInit /\ PageInit

Spec == Init /\ [][PageNext]_vars

(* The uploads alone, with two reads in flight in the FileUpload of the
   main view, which stays mounted; the reads end in any order.  The
   FileUpload of the upload view takes one file at a time here, so that no
   read outlives it. *)
MaxPending == 2

UploadNext ==
  \/ \E file \in Files :
       (plyBuffer # NULL \/ reading = {}) /\ handleFileWithin(file, MaxPending)
  \/ \E file \in Files, rnd \in Outcomes : handleFileLoaded(file, rnd)

UploadSpec == Init /\ [][UploadNext]_vars

PhysSpec == Init /\ [][PhysNext]_vars

---------------------------------------------------------------------------
(* Properties of the page *)

Detections(ply) == {detectVolume(ply, rnd) : rnd \in Outcomes} \ {NULL}

(* C4: once a load has completed, the detection result the page holds was
   computed from the point cloud the page holds: volumeResult is a result of
   detectVolume on parsedPly.  The code does not keep this: a load that
   parses but detects nothing replaces the point cloud and leaves the
   detection result of the earlier file in use. *)
C4_DetectionFromHeldCloud ==
  volumeResult # NULL => volumeResult \in Detections(parsedPly)

SameCylinder(a, b) ==
  a.center = b.center /\ a.radius = b.radius /\ a.height = b.height

AnyUpdateField ==
  \E field \in Fields : \E value \in SliderValues(field) : updateField(field, value)

(* C5: a manual adjustment of the cylinder leaves the stored detection
   result unchanged, and so do Reset and Reset Adjustments, after which the
   adjusted cylinder used for physics has the center, radius and height of
   the detected cylinder. *)
C5_AdjustmentsKeepDetection ==
  [][/\ AnyUpdateField => volumeResult' = volumeResult
     /\ (handleReset \/ resetAdjustments) =>
          /\ volumeResult' = volumeResult
          /\ SameCylinder(adjustedCylinder', volumeResult'.cylinder)]_vars

(* adjustments have been made: the adjusted cylinder differs from the
   detected one in center, radius and height, and the detection is still
   one of the held point cloud *)
C5_Witness ==
  /\ volumeResult # NULL
  /\ adjustedCylinder # NULL
  /\ cylinderAdjustments.offsetX # RZero
  /\ cylinderAdjustments.radiusScale # ROne
  /\ cylinderAdjustments.heightScale # ROne
  /\ adjustedCylinder.center # volumeResult.cylinder.center
  /\ adjustedCylinder.radius # volumeResult.cylinder.radius
  /\ adjustedCylinder.height # volumeResult.cylinder.height
  /\ volumeResult \in Detections(parsedPly)

(* C6: whatever events led to it, the physics state the page shows is the
   one calculatePhysicsState gives for the current adjusted cylinder, fill
   level and tilt angle, and so is the same after any two histories that end
   with the same detection result, adjustments, fill level and tilt angle. *)
C6_PhysicsStateFromCurrentInputs ==
  /\ adjustedCylinder = adjustedCylinderValue(volumeResult, cylinderAdjustments)
  /\ physicsState = physicsStateValue(adjustedCylinder, fillLevel, tiltAngle)

(* a physics state after adjustments, a fill change and a tilt change *)
C6_Witness ==
  /\ physicsState # NULL
  /\ tiltAngle = 37
  /\ fillLevel = ROne
  /\ cylinderAdjustments.radiusScale = R(1, 2)
  /\ physicsState.tiltAngle = toRadians(37)
  /\ physicsState.fillLevel = ROne

(* C7: the cylinder of every detection result, and every adjusted cylinder
   handed to calculatePhysicsState, has a positive radius and a positive
   height. *)
C7_CylinderPositive ==
  /\ volumeResult # NULL =>
       RPos(volumeResult.cylinder.radius) /\ RPos(volumeResult.cylinder.height)
  /\ adjustedCylinder # NULL =>
       RPos(adjustedCylinder.radius) /\ RPos(adjustedCylinder.height)

(* the detection of the thin cloud, whose height is raised to the floor of
   0.01, with radius and height scaled down by the sliders *)
C7_Witness ==
  /\ adjustedCylinder # NULL
  /\ volumeResult.cylinder.height = R(1, 100)
  /\ cylinderAdjustments.radiusScale = R(1, 2)
  /\ cylinderAdjustments.heightScale = R(2, 5)
  /\ RLt(adjustedCylinder.height, R(1, 100))

---------------------------------------------------------------------------
(* src/unnamed/part_002: the circle fit on the points themselves.

   points is a sequence of pairs <<x, y>> of numbers. *)

(* F(v) with v evaluated once, whatever the number of uses F makes of it *)
Strict(F(_), v) == CHOOSE r \in {F(x) : x \in {v}} : TRUE

RECURSIVE RSum(_)
RSum(seq) ==
  IF seq = << >> THEN RZero
  ELSE LET AddHead(rest) == RAdd(Head(seq), rest)
       IN  Strict(AddHead, RSum(Tail(seq)))

RAbs(a) == IF a.n < 0 THEN RNeg(a) ELSE a

determinant3x3(m) ==
  RAdd(RSub(RMul(m[1][1], RSub(RMul(m[2][2], m[3][3]), RMul(m[2][3], m[3][2]))),
            RMul(m[1][2], RSub(RMul(m[2][1], m[3][3]), RMul(m[2][3], m[3][1])))),
       RMul(m[1][3], RSub(RMul(m[2][1], m[3][2]), RMul(m[2][2], m[3][1]))))

(* idx counts the columns from 1 *)
replaceColumn(m, col, idx) ==
  [i \in 1..3 |-> [j \in 1..3 |-> IF j = idx THEN col[i] ELSE m[i][j]]]

(* Math.abs(det) < 1e-10.  The numbers of the model are quotients of two
   integers below 2^31: one that is not 0 is at least 2^-31 > 1e-10 in
   absolute value. *)
BelowDetEpsilon(det) == det.n = 0

(* the sums of the loop over the points *)
circleSums(points) ==
  LET n == Len(points)
      S(f(_)) == Strict(RSum, [i \in 1..n |-> f(points[i])])
      X(p) == p[1]
      Y(p) == p[2]
      X2(p) == RMul(p[1], p[1])
      Y2(p) == RMul(p[2], p[2])
      XY(p) == RMul(p[1], p[2])
      X3(p) == RMul(RMul(p[1], p[1]), p[1])
      Y3(p) == RMul(RMul(p[2], p[2]), p[2])
      X2Y(p) == RMul(RMul(p[1], p[1]), p[2])
      XY2(p) == RMul(RMul(p[1], p[2]), p[2])
  IN  [n |-> n, sumX |-> S(X), sumY |-> S(Y), sumX2 |-> S(X2), sumY2 |-> S(Y2),
       sumXY |-> S(XY), sumX3 |-> S(X3), sumY3 |-> S(Y3), sumX2Y |-> S(X2Y),
       sumXY2 |-> S(XY2)]

(* the matrix equation A * [a, b, c]^T = B *)
circleSystem(s) ==
  [A |-> <<<<s.sumX2, s.sumXY, s.sumX>>, <<s.sumXY, s.sumY2, s.sumY>>,
           <<s.sumX, s.sumY, Int2R(s.n)>>>>,
   B |-> <<RDiv(RAdd(s.sumX3, s.sumXY2), Int2R(2)),
           RDiv(RAdd(s.sumX2Y, s.sumY3), Int2R(2)),
           RDiv(RAdd(s.sumX2, s.sumY2), Int2R(2))>>]

(* Cramer's rule, then the radius and its check *)
solveCircle(sys) ==
  LET Solve(det) ==
        IF BelowDetEpsilon(det) THEN NULL
        ELSE Strict(circleFromSolution,
                    [a |-> RDiv(determinant3x3(replaceColumn(sys.A, sys.B, 1)), det),
                     b |-> RDiv(determinant3x3(replaceColumn(sys.A, sys.B, 2)), det),
                     c |-> RDiv(determinant3x3(replaceColumn(sys.A, sys.B, 3)), det)])
  IN  Strict(Solve, determinant3x3(sys.A))

fitCircle2D(points) ==
  IF Len(points) < MinCirclePoints THEN NULL
  ELSE Strict(solveCircle, Strict(circleSystem, Strict(circleSums, points)))

(* fitCircleRANSAC on the points themselves: the pieces of one trial *)
SqDist(p, c) == RAdd(RSq(RSub(p[1], c[1])), RSq(RSub(p[2], c[2])))

(* Math.abs(Math.sqrt(dx * dx + dy * dy) - circle.radius) < threshold,
   stated on the squares: radius - threshold < distance < radius + threshold *)
IsInlier(p, circle, threshold) ==
  LET D == SqDist(p, circle.center)
      hi == RAdd(circle.radius, threshold)
      lo == RSub(circle.radius, threshold)
  IN  /\ RLt(RZero, threshold)
      /\ RLt(D, RSq(hi))
      /\ (lo.n < 0 \/ RLt(RSq(lo), D))

inlierPoints(points, circle, threshold) ==
  LET Near(p) == IsInlier(p, circle, threshold)
  IN  SelectSeq(points, Near)

RECURSIVE Ascending(_)
Ascending(S) ==
  IF S = {} THEN << >>
  ELSE LET m == CHOOSE x \in S : \A y \in S : x <= y
       IN  <<m>> \o Ascending(S \ {m})

(* Array.from(indices).map(i => points[i]); indices count from 1 here, and
   the sums of fitCircle2D do not depend on the order of the sample *)
sampleOf(points, indices) ==
  LET order == Ascending(indices)
  IN  [k \in 1..Len(order) |-> points[order[k]]]

---------------------------------------------------------------------------
(* The numbers of the code are binary floating-point numbers: every sum,
   product and quotient is rounded to the nearest number of the format,
   ties to the even mantissa.  A number is held as m * 2^e with
   2^(MantissaBits-1) <= |m| < 2^MantissaBits, or m = 0 and e = 0.  The
   format of the code has 53 bits; the exponent is not bounded here, so no
   result is infinite. *)
MantissaBits == 13

Float(m, e) == [m |-> m, e |-> e]
FZero == Float(0, 0)

BitLen(n) == IF n = 0 THEN 0 ELSE CHOOSE k \in 1..31 : n >= 2^(k - 1) /\ (k = 31 \/ n < 2^k)

(* the number of the format nearest to n * 2^e *)
FRound(n, e) ==
  IF n = 0 THEN FZero
  ELSE
    LET s == IF n > 0 THEN 1 ELSE -1
        a == Abs(n)
        k == BitLen(a) - MantissaBits
    IN  IF k > 0
        THEN LET q == a \div 2^k
                 r == a % 2^k
                 h == 2^(k - 1)
                 q1 == IF r > h \/ (r = h /\ q % 2 = 1) THEN q + 1 ELSE q
             IN  IF q1 = 2^MantissaBits THEN Float(s * (q1 \div 2), e + k + 1)
                 ELSE Float(s * q1, e + k)
        ELSE Float(s * a * 2^(0 - k), e + k)

FInt(n) == FRound(n, 0)
FNeg(a) == Float(0 - a.m, a.e)
FAbs(a) == Float(Abs(a.m), a.e)
FMul(a, b) == FRound(a.m * b.m, a.e + b.e)

(* an addend below a quarter of the last place of the other is rounded away *)
FAddOrdered(a, b) ==
  IF a.e - b.e >= MantissaBits + 2 THEN a
  ELSE FRound(a.m * 2^(a.e - b.e) + b.m, b.e)

FAdd(a, b) ==
  IF a.m = 0 THEN b
  ELSE IF b.m = 0 THEN a
  ELSE IF a.e < b.e THEN FAddOrdered(b, a)
  ELSE FAddOrdered(a, b)

FSub(a, b) == FAdd(a, FNeg(b))
FLt(a, b) == FSub(a, b).m < 0

(* b is not zero; the quotient is taken to two bits more than the format
   holds, with one more bit for a remainder *)
FDiv(a, b) ==
  IF a.m = 0 THEN FZero
  ELSE
    LET s == (IF a.m > 0 THEN 1 ELSE -1) * (IF b.m > 0 THEN 1 ELSE -1)
        sh == MantissaBits + 2
        n == Abs(a.m) * 2^sh
        q == n \div Abs(b.m)
        sticky == IF n % Abs(b.m) = 0 THEN 0 ELSE 1
    IN  FRound(s * (2 * q + sticky), a.e - b.e - sh - 1)

RECURSIVE SqrtBits(_, _, _)
SqrtBits(n, k, acc) ==
  IF k < 0 THEN acc
  ELSE IF (acc + 2^k) * (acc + 2^k) <= n THEN SqrtBits(n, k - 1, acc + 2^k)
  ELSE SqrtBits(n, k - 1, acc)

(* Math.sqrt of a number above zero, rounded as the operations are *)
FSqrt(a) ==
  LET t == IF (a.e - (MantissaBits + 1)) % 2 = 0 THEN MantissaBits + 1 ELSE MantissaBits + 2
      n == a.m * 2^t
      q == SqrtBits(n, 14, 0)
      sticky == IF q * q = n THEN 0 ELSE 1
  IN  FRound(2 * q + sticky, ((a.e - t) \div 2) - 1)

(* 1e-10 in the format *)
DetEpsilon == FDiv(FInt(1), FMul(FInt(100000), FInt(100000)))

FDeterminant3x3(m) ==
  FAdd(FSub(FMul(m[1][1], FSub(FMul(m[2][2], m[3][3]), FMul(m[2][3], m[3][2]))),
            FMul(m[1][2], FSub(FMul(m[2][1], m[3][3]), FMul(m[2][3], m[3][1])))),
       FMul(m[1][3], FSub(FMul(m[2][1], m[3][2]), FMul(m[2][2], m[3][1]))))

RECURSIVE FSumTo(_, _)
FSumTo(terms, k) ==
  IF k = 0 THEN FZero
  ELSE LET AddTerm(sum) == FAdd(sum, terms[k])
       IN  Strict(AddTerm, FSumTo(terms, k - 1))

(* fitCircle2D in the arithmetic of the code, on points with whole
   coordinates: points is a sequence of pairs <<x, y>> of integers *)
roundedSums(points) ==
  LET n == Len(points)
      x(i) == FInt(points[i][1])
      y(i) == FInt(points[i][2])
      S(f(_)) == FSumTo([i \in 1..n |-> f(i)], n)
      X(i) == x(i)
      Y(i) == y(i)
      X2(i) == FMul(x(i), x(i))
      Y2(i) == FMul(y(i), y(i))
      XY(i) == FMul(x(i), y(i))
      X3(i) == FMul(FMul(x(i), x(i)), x(i))
      Y3(i) == FMul(FMul(y(i), y(i)), y(i))
      X2Y(i) == FMul(FMul(x(i), x(i)), y(i))
      XY2(i) == FMul(FMul(x(i), y(i)), y(i))
  IN  [n |-> n, sumX |-> S(X), sumY |-> S(Y), sumX2 |-> S(X2), sumY2 |-> S(Y2),
       sumXY |-> S(XY), sumX3 |-> S(X3), sumY3 |-> S(Y3), sumX2Y |-> S(X2Y),
       sumXY2 |-> S(XY2)]

roundedSystem(s) ==
  [A |-> <<<<s.sumX2, s.sumXY, s.sumX>>, <<s.sumXY, s.sumY2, s.sumY>>,
           <<s.sumX, s.sumY, FInt(s.n)>>>>,
   B |-> <<FDiv(FAdd(s.sumX3, s.sumXY2), FInt(2)),
           FDiv(FAdd(s.sumX2Y, s.sumY3), FInt(2)),
           FDiv(FAdd(s.sumX2, s.sumY2), FInt(2))>>]

(* Math.sqrt of a negative number is NaN, which is not finite *)
roundedCircle(sol) ==
  LET Check(rsq) ==
        IF rsq.m <= 0 THEN NULL
        ELSE [center |-> <<sol.a, sol.b>>, radius |-> FSqrt(rsq)]
  IN  Strict(Check, FAdd(FAdd(sol.c, FMul(sol.a, sol.a)), FMul(sol.b, sol.b)))

solveRounded(sys) ==
  LET Solve(det) ==
        IF FLt(FAbs(det), DetEpsilon) THEN NULL
        ELSE Strict(roundedCircle,
                    [a |-> FDiv(FDeterminant3x3(replaceColumn(sys.A, sys.B, 1)), det),
                     b |-> FDiv(FDeterminant3x3(replaceColumn(sys.A, sys.B, 2)), det),
                     c |-> FDiv(FDeterminant3x3(replaceColumn(sys.A, sys.B, 3)), det)])
  IN  Strict(Solve, FDeterminant3x3(sys.A))

fitCircle2DRounded(points) ==
  IF Len(points) < MinCirclePoints THEN NULL
  ELSE Strict(solveRounded, Strict(roundedSystem, Strict(roundedSums, points)))

---------------------------------------------------------------------------
(* src/lib/volume-detection.ts: the bands of findRimHeight on the heights
   of the points.  ys is the sequence of the y coordinates. *)

(* sliceAtHeight(positions, height, thickness).length *)
sliceCount(ys, height, thickness) ==
  Cardinality({i \in 1..Len(ys) :
                 RLt(RAbs(RSub(ys[i], height)), RDiv(thickness, Int2R(2)))})

(* densities[i].height and densities[i].count, i from 0 *)
bandHeight(i, minY, maxY) ==
  RAdd(minY, RMul(R(2 * i + 1, 2), RDiv(RSub(maxY, minY), Int2R(NumSlices))))

densities(ys, minY, maxY) ==
  [i \in 0..(NumSlices - 1) |->
     sliceCount(ys, bandHeight(i, minY, maxY), RDiv(RSub(maxY, minY), Int2R(NumSlices)))]

MaxOf(S) == CHOOSE x \in S : \A y \in S : y <= x

(* a scan that takes the bands at the threshold too *)
topDenseBandAtLeast(counts) ==
  LET maxDensity == MaxOf({counts[i] : i \in DOMAIN counts})
      dense == {i \in DOMAIN counts : 10 * counts[i] >= 3 * maxDensity}
  IN  IF dense = {} THEN -1 ELSE MaxOf(dense)

(* the scan from the top down: the index of the first band whose count
   exceeds maxDensity * 0.3, -1 when the loop ends without one *)
topDenseBand(counts) ==
  LET maxDensity == MaxOf({counts[i] : i \in DOMAIN counts})
      dense == {i \in DOMAIN counts : 10 * counts[i] > 3 * maxDensity}
  IN  IF dense = {} THEN -1 ELSE MaxOf(dense)

---------------------------------------------------------------------------
(* src/lib/volume-detection.ts: the covariance of the positions and the
   power iteration on it.  positions is the sequence of the points. *)

Column(positions, k) == [i \in 1..Len(positions) |-> positions[i][k]]

computeCovariance(positions) ==
  LET n == Len(positions)
      Cov(mean) ==
        LET Entry(j, k) ==
              RDiv(RSum([i \in 1..n |-> RMul(RSub(positions[i][j], mean[j]),
                                             RSub(positions[i][k], mean[k]))]),
                   Int2R(n))
        IN  <<<<Entry(1, 1), Entry(1, 2), Entry(1, 3)>>,
              <<Entry(1, 2), Entry(2, 2), Entry(2, 3)>>,
              <<Entry(1, 3), Entry(2, 3), Entry(3, 3)>>>>
  IN  Strict(Cov, <<RDiv(RSum(Column(positions, 1)), Int2R(n)),
                    RDiv(RSum(Column(positions, 2)), Int2R(n)),
                    RDiv(RSum(Column(positions, 3)), Int2R(n))>>)

matrixVector(cov, v) ==
  LET Row(i) == RAdd(RAdd(RMul(cov[i][1], v[1]), RMul(cov[i][2], v[2])), RMul(cov[i][3], v[3]))
  IN  <<Row(1), Row(2), Row(3)>>

(* one pass of the loop: newV = cov * v, then v = newV / len with no test
   of len.  A zero newV gives 0 / 0 in every component, and a NaN in v
   makes every product and sum of the next pass NaN. *)
powerStep(cov, v) ==
  IF IsNaN(v[1]) \/ IsNaN(v[2]) \/ IsNaN(v[3]) THEN <<NaN, NaN, NaN>>
  ELSE LET Normalise(newV) ==
             LET lenSq == RAdd(RAdd(RSq(newV[1]), RSq(newV[2])), RSq(newV[3]))
             IN  IF lenSq = RZero THEN <<NaN, NaN, NaN>>
                 ELSE <<RDiv(newV[1], RSqrt(lenSq)), RDiv(newV[2], RSqrt(lenSq)),
                        RDiv(newV[3], RSqrt(lenSq))>>
       IN  Strict(Normalise, matrixVector(cov, v))

PowerIterations == 50

(* the loop from pass iter on; a pass that leaves v as it was leaves it so
   in every later pass *)
RECURSIVE powerIteration(_, _, _)
powerIteration(cov, v, iter) ==
  IF iter >= PowerIterations THEN v
  ELSE LET Rest(w) == IF w = v THEN v ELSE powerIteration(cov, w, iter + 1)
       IN  Strict(Rest, powerStep(cov, v))

dominantEigenvector(cov) == powerIteration(cov, <<ROne, RZero, RZero>>, 0)

---------------------------------------------------------------------------
(* Calls of the fitting library.  A call is held in the variable call, as
   the calls of the physics library are; fitCircleRANSAC runs step by step:
   the draws of the rejection loop, the evaluation of a sample, the refit. *)

Pt(x, y) == <<Int2R(x), Int2R(y)>>

NoPoints == << >>
TwoPoints == <<Pt(0, 0), Pt(1, 1)>>
Collinear3 == <<Pt(0, 1), Pt(1, 3), Pt(2, 5)>>
Collinear4 == <<Pt(0, 0), Pt(1, 1), Pt(2, 2), Pt(3, 3)>>
Vertical3 == <<Pt(2, 0), Pt(2, 1), Pt(2, 5)>>
Coincident3 == <<Pt(1, 1), Pt(1, 1), Pt(1, 1)>>
(* on the circle of radius 4 about (1, 1) *)
OnCircleR4 == <<Pt(5, 1), Pt(1, 5), Pt(-3, 1), Pt(1, -3)>>
(* on the circle of radius 1 about (1, 0), which passes through the origin *)
ThroughOrigin == <<Pt(2, 0), Pt(1, 1), Pt(0, 0), Pt(1, -1)>>
(* on the circle of radius 1 about (7, 0) *)
FarCircle == <<Pt(8, 0), Pt(7, 1), Pt(6, 0)>>
(* three corners of a square and its middle *)
Corners == <<Pt(-1, -1), Pt(-1, 1), Pt(0, 0), Pt(1, -1)>>

FitInputs ==
  {NoPoints, TwoPoints, Collinear3, Collinear4, Vertical3, Coincident3,
   OnCircleR4, ThroughOrigin, FarCircle}

RansacInputs == {TwoPoints, OnCircleR4, Corners}

(* points with whole coordinates, for the arithmetic of the code; the
   points of SteepLine lie on y = 5x - 30 *)
IPt(x, y) == <<x, y>>
SteepLine == <<IPt(6, 0), IPt(7, 5), IPt(8, 10)>>
RoundedInputs ==
  {SteepLine, <<IPt(0, 1), IPt(1, 3), IPt(2, 5)>>, <<IPt(0, 0), IPt(1, 1)>>,
   <<IPt(5, 1), IPt(1, 5), IPt(-3, 1), IPt(1, -3)>>}

MaxIterations == 2
Thresholds == {RZero, R(1, 20), R(1, 2)}

(* a cloud of 5 points *)
TinyCloud == Cloud(5, Low, <<Int2R(2), ROne, Int2R(2)>>, 17, 2, Up)

FitClouds == {CupCloud, ThinCloud, SmallCloud, FlatCloud, TinyCloud}

(* the outcomes above, a body whose mean error exceeds its radius, and a
   body every point of which lies on the circle *)
FitOutcomes ==
  Outcomes \cup
    {[rim |-> NULL, all |-> Sol(RZero, RZero, R(1, 4)), avgError |-> Int2R(5)],
     [rim |-> NULL, all |-> Sol(RZero, RZero, R(1, 4)), avgError |-> RZero]}

(* Positions, each standing for 20 points of a cloud: all in the plane
   x = 25; four about the origin on the x and y axes; two on the line
   through (3, 4, 0) *)
P3(x, y, z) == <<Int2R(x), Int2R(y), Int2R(z)>>
PlanePoints ==
  <<P3(25, 0, 0), P3(25, 1, 12), P3(25, 2, 0), P3(25, 2, 12), P3(25, 2, 19), P3(25, 3, 19)>>
CrossPoints == <<P3(2, 0, 0), P3(-2, 0, 0), P3(0, 1, 0), P3(0, -1, 0)>>
SlantPoints == <<P3(3, 4, 0), P3(-3, -4, 0)>>
EigenInputs == {PlanePoints, CrossPoints, SlantPoints}

(* the three places in XZ of the rim slice of PlanePoints, at y = 2 *)
PlaneSample == <<IPt(25, 0), IPt(25, 12), IPt(25, 19)>>

(* the value m * 2^e *)
FValue(f) == IF f.e >= 0 THEN Int2R(f.m * 2^f.e) ELSE R(f.m, 2^(0 - f.e))

(* The best trial on the rim slice of PlanePoints: the circle that the
   arithmetic of the code gives on the sample, where a point of the slice
   lies within the threshold of 0.02 of it, so that its inlier count
   exceeds 0.  The outcome is taken where center and radius are whole
   numbers, which the exact operators hold. *)
PlaneRim ==
  LET circle == fitCircle2DRounded(PlaneSample)
      Whole(f) == FValue(f).d = 1
      Near(c) == \E i \in 1..Len(PlaneSample) :
                    IsInlier(Pt(PlaneSample[i][1], PlaneSample[i][2]), c, R(1, 50))
      Best(c) ==
        IF Near(c)
        THEN Sol(c.center[1], c.center[2],
                 RSub(RSq(c.radius), RAdd(RSq(c.center[1]), RSq(c.center[2]))))
        ELSE NULL
  IN  IF circle = NULL THEN NULL
      ELSE IF ~(Whole(circle.center[1]) /\ Whole(circle.center[2]) /\ Whole(circle.radius))
      THEN NULL
      ELSE Strict(Best, [center |-> <<FValue(circle.center[1]), FValue(circle.center[2])>>,
                         radius |-> FValue(circle.radius)])

PlaneOutcome == [rim |-> PlaneRim, all |-> PlaneRim, avgError |-> R(1, 10)]

(* the cloud of PlanePoints: its bands from its heights, its eigenvector
   from its covariance *)
PlaneCloud ==
  Cloud(20 * Len(PlanePoints), P3(25, 0, 0), P3(25, 3, 19),
        topDenseBand(densities(Column(PlanePoints, 2), RZero, Int2R(3))), 60,
        dominantEigenvector(computeCovariance(PlanePoints)))

(* The cylinders that detectVolume returns, and four stops of the radius
   and height sliders, which run from 0.1 to 3 in steps of 0.05 *)
DetectedResults ==
  {detectVolume(ply, rnd) : ply \in FitClouds, rnd \in FitOutcomes} \ {NULL}
ScaleFactors == {R(1, 4), R(1, 2), ROne, Int2R(3)}

(* the adjustedCylinder memo and the cup mass of the physicsState memo of
   the page, for a detection result and the two scale sliders *)
CallCupMass(vr, radiusScale, heightScale) ==
  LET adj == [defaultAdjustments EXCEPT !.radiusScale = radiusScale,
                                        !.heightScale = heightScale]
      Mass(ac) == [op |-> "cupMass", volumeResult |-> vr, adjustments |-> adj,
                   adjustedCylinder |-> ac, unitScale |-> estimateUnitScale(ac),
                   ret |-> cupMassValue(ac)]
  IN  /\ call.op = "none"
      /\ call' = Strict(Mass, adjustedCylinderValue(vr, adj))
      /\ sweep' = << >>
      /\ UNCHANGED pageVars

CallDominantEigenvector(positions) ==
  /\ call.op = "none"
  /\ call' = [op |-> "dominantEigenvector", positions |-> positions,
              ret |-> dominantEigenvector(computeCovariance(positions))]
  /\ sweep' = << >>
  /\ UNCHANGED pageVars

CallFitCircle2D(points) ==
  /\ call.op = "none"
  /\ call' = [op |-> "fitCircle2D", arithmetic |-> "exact", points |-> points,
              ret |-> fitCircle2D(points)]
  /\ sweep' = << >>
  /\ UNCHANGED pageVars

(* the same call, its operations rounded as the code rounds them *)
CallFitCircle2DRounded(points) ==
  /\ call.op = "none"
  /\ call' = [op |-> "fitCircle2D", arithmetic |-> "rounded",
              points |-> [i \in 1..Len(points) |-> Pt(points[i][1], points[i][2])],
              ret |-> fitCircle2DRounded(points)]
  /\ sweep' = << >>
  /\ UNCHANGED pageVars

CallFitCircleRANSAC(points, iterations, threshold) ==
  /\ call.op = "none"
  /\ call' = [op |-> "fitCircleRANSAC", points |-> points,
              iterations |-> iterations, threshold |-> threshold,
              pc |-> IF Len(points) < MinCirclePoints THEN "done"
                     ELSE IF iterations > 0 THEN "draw" ELSE "refit",
              iter |-> 0, indices |-> {}, repeated |-> FALSE,
              bestCircle |-> NULL, bestInliers |-> 0,
              trials |-> << >>, candidate |-> NULL, refits |-> 0, ret |-> NULL]
  /\ sweep' = << >>
  /\ UNCHANGED pageVars

(* a draw that leaves the set of indices as it was *)
DrawIndexDropped(i) ==
  /\ call.op = "fitCircleRANSAC"
  /\ call.pc = "draw"
  /\ Cardinality(call.indices) < 3
  /\ i \in 1..Len(call.points)
  /\ call' = [call EXCEPT !.repeated = call.repeated \/ i \in call.indices]
  /\ UNCHANGED sweep
  /\ UNCHANGED pageVars

(* one turn of while (indices.size < 3): a Set takes an index it holds
   without growing *)
DrawIndex(i) ==
  /\ call.op = "fitCircleRANSAC"
  /\ call.pc = "draw"
  /\ Cardinality(call.indices) < 3
  /\ i \in 1..Len(call.points)
  /\ call' = [call EXCEPT !.indices = call.indices \cup {i},
                          !.repeated = call.repeated \/ i \in call.indices]
  /\ UNCHANGED sweep
  /\ UNCHANGED pageVars

(* the rest of one iteration: the fit of the sample, the count of the
   inliers, the comparison with the best so far.  c is the state of the
   call when the sample is complete. *)
afterSample(c) ==
  LET Counted(circle) ==
        LET inliers == IF circle = NULL THEN 0
                       ELSE Len(inlierPoints(c.points, circle, c.threshold))
            better == circle # NULL /\ inliers > c.bestInliers
        IN  [c EXCEPT
               !.trials = Append(c.trials,
                                 [sample |-> c.indices, repeated |-> c.repeated,
                                  circle |-> circle, inliers |-> inliers]),
               !.bestInliers = IF better THEN inliers ELSE c.bestInliers,
               !.bestCircle = IF better THEN circle ELSE c.bestCircle,
               !.iter = c.iter + 1,
               !.indices = {},
               !.repeated = FALSE,
               !.pc = IF c.iter + 1 < c.iterations THEN "draw" ELSE "refit"]
  IN  Strict(Counted, Strict(fitCircle2D, sampleOf(c.points, c.indices)))

EvaluateSample ==
  /\ call.op = "fitCircleRANSAC"
  /\ call.pc = "draw"
  /\ Cardinality(call.indices) = 3
  /\ call' = afterSample(call)
  /\ UNCHANGED sweep
  /\ UNCHANGED pageVars

(* after the loop: the refit on the inliers of the best circle *)
afterLoop(c) ==
  LET Refined(inl) ==
        IF c.bestCircle # NULL /\ Len(inl) >= 3 THEN fitCircle2D(inl) ELSE NULL
      Returned(refined) ==
        [c EXCEPT
           !.candidate = c.bestCircle,
           !.refits = IF c.bestCircle # NULL /\ refined.fitted THEN 1 ELSE 0,
           !.ret = IF refined.circle # NULL THEN refined.circle ELSE c.bestCircle,
           !.pc = "done"]
      Refit(inl) == [fitted |-> Len(inl) >= 3, circle |-> Refined(inl)]
  IN  Strict(Returned,
             Strict(Refit, IF c.bestCircle = NULL THEN << >>
                           ELSE inlierPoints(c.points, c.bestCircle, c.threshold)))

RefitInliers ==
  /\ call.op = "fitCircleRANSAC"
  /\ call.pc = "refit"
  /\ call' = afterLoop(call)
  /\ UNCHANGED sweep
  /\ UNCHANGED pageVars

CallFitCylinder(ply, axis, rnd) ==
  /\ call.op = "none"
  /\ call' = [op |-> "fitCylinder", ply |-> ply, axis |-> axis, rnd |-> rnd,
              ret |-> fitCylinderAxis(ply, axis, rnd.all, rnd.avgError)]
  /\ sweep' = << >>
  /\ UNCHANGED pageVars

CallDetectVolume(ply, rnd) ==
  /\ call.op = "none"
  /\ call' = [op |-> "detectVolume", ply |-> ply, rnd |-> rnd,
              ret |-> detectVolume(ply, rnd)]
  /\ sweep' = << >>
  /\ UNCHANGED pageVars

(* estimateCupMass(outerRadius, height): wall thickness and density are
   left to their defaults *)
CallEstimateCupMass(outerRadius, height) ==
  /\ call.op = "none"
  /\ call' = [op |-> "estimateCupMass", outerRadius |-> outerRadius, height |-> height,
              ret |-> estimateCupMass(outerRadius, height, DefaultWallThickness,
                                      DefaultCeramicDensity)]
  /\ sweep' = << >>
  /\ UNCHANGED pageVars

(* heights between 0 and 20, where band i is the heights between i and
   i + 1: a dense bottom, a band above it over the threshold and a top
   band under it; points on the edges of the bands only; points at one
   height; a dense top band; a band of 3 points, exactly 0.3 times the 10
   of the densest *)
Halves(k, n) == [i \in 1..n |-> R(2 * k + 1, 2)]
Edges == <<Int2R(0), Int2R(20)>>
HeightLists ==
  {Edges \o Halves(0, 4) \o Halves(10, 2) \o Halves(19, 1),
   Edges \o <<Int2R(1), Int2R(2)>>,
   <<Int2R(5), Int2R(5), Int2R(5)>>,
   Edges \o Halves(3, 2) \o Halves(19, 4),
   Edges \o Halves(2, 10) \o Halves(7, 3) \o <<R(31, 4)>> \o Halves(12, 4)}

MinOfSeq(ys) == CHOOSE y \in {ys[i] : i \in 1..Len(ys)} : \A i \in 1..Len(ys) : RLe(y, ys[i])
MaxOfSeq(ys) == CHOOSE y \in {ys[i] : i \in 1..Len(ys)} : \A i \in 1..Len(ys) : RLe(ys[i], y)

(* findRimHeight(positions, minY, maxY) with the bounds of the points *)
rimHeightCall(ys) ==
  LET WithBounds(b) ==
        LET WithCounts(counts) ==
              [op |-> "findRimHeight", ys |-> ys, minY |-> b.min, maxY |-> b.max,
               counts |-> counts,
               ret |-> findRimHeight([denseBand |-> topDenseBand(counts)], b.min, b.max)]
        IN  Strict(WithCounts, densities(ys, b.min, b.max))
  IN  Strict(WithBounds, [min |-> MinOfSeq(ys), max |-> MaxOfSeq(ys)])

CallFindRimHeight(ys) ==
  /\ call.op = "none"
  /\ call' = rimHeightCall(ys)
  /\ sweep' = << >>
  /\ UNCHANGED pageVars

FitOps ==
  {"fitCircle2D", "fitCircleRANSAC", "fitCylinder", "detectVolume", "estimateCupMass",
   "findRimHeight", "dominantEigenvector", "cupMass"}

FitReturn ==
  /\ call.op \in FitOps
  /\ call.op = "fitCircleRANSAC" => call.pc = "done"
  /\ call' = NoCall
  /\ sweep' = << >>
  /\ UNCHANGED pageVars

FitNext ==
  \/ \E points \in FitInputs : CallFitCircle2D(points)
  \/ \E points \in RoundedInputs : CallFitCircle2DRounded(points)
  \/ \E points \in RansacInputs, iterations \in 0..MaxIterations, threshold \in Thresholds :
       CallFitCircleRANSAC(points, iterations, threshold)
  \/ \E i \in 1..4 : DrawIndex(i)
  \/ EvaluateSample
  \/ RefitInliers
  \/ \E ply \in FitClouds, axis \in {Up, Side}, rnd \in FitOutcomes : CallFitCylinder(ply, axis, rnd)
  \/ \E ply \in FitClouds, rnd \in FitOutcomes : CallDetectVolume(ply, rnd)
  \/ \E outerRadius \in {R(1, 25), R(1, 20)}, height \in {R(1, 10), R(1, 5)} :
       CallEstimateCupMass(outerRadius, height)
  \/ \E ys \in HeightLists : CallFindRimHeight(ys)
  \/ \E positions \in EigenInputs : CallDominantEigenvector(positions)
  \/ \E rnd \in {PlaneOutcome} : CallDetectVolume(PlaneCloud, rnd)
  \/ \E vr \in DetectedResults, radiusScale \in ScaleFactors, heightScale \in ScaleFactors :
       CallCupMass(vr, radiusScale, heightScale)
  \/ FitReturn

FitSpec == Init /\ [][FitNext]_vars

IsRansacLoop == call.op = "fitCircleRANSAC" /\ call.pc = "draw"

(* the random source does not return indices the sample holds forever, and
   the loop and the refit are not suspended *)
DrawNewIndex == \E i \in 1..4 : DrawIndex(i) /\ i \notin call.indices

(* ENABLED <<EvaluateSample>>_vars and ENABLED <<RefitInliers>>_vars are
   the guards of the two steps: each changes call whenever it can be taken *)
SampleComplete == IsRansacLoop /\ Cardinality(call.indices) = 3
LoopOver == call.op = "fitCircleRANSAC" /\ call.pc = "refit"

(* weak fairness of the three steps, that of the last two written out with
   their guards for ENABLED *)
FitLiveSpec ==
  /\ FitSpec
  /\ WF_vars(DrawNewIndex)
  /\ ([]<>(~SampleComplete) \/ []<><<EvaluateSample>>_vars)
  /\ ([]<>(~LoopOver) \/ []<><<RefitInliers>>_vars)

---------------------------------------------------------------------------
(* Properties of the fitting library *)

IsFitCircle2DCall == call.op = "fitCircle2D"
IsRansacCall == call.op = "fitCircleRANSAC"
RansacDone == IsRansacCall /\ call.pc = "done"

(* every three of the points have a zero cross product *)
AllCollinear(points) ==
  \A i, j, k \in 1..Len(points) :
    RSub(RMul(RSub(points[j][1], points[i][1]), RSub(points[k][2], points[i][2])),
         RMul(RSub(points[k][1], points[i][1]), RSub(points[j][2], points[i][2]))).n = 0

RadiusPositive(c) ==
  IF call.arithmetic = "exact" THEN c.radius.n > 0 ELSE c.radius.m > 0

(* C11: for three or more points that are all collinear, coincident points
   included, fitCircle2D returns null; and it never returns a circle whose
   radius is NaN, infinite, zero or negative. *)
C11_CollinearFails ==
  IsFitCircle2DCall =>
    /\ (Len(call.points) >= 3 /\ AllCollinear(call.points)) => call.ret = NULL
    /\ call.ret # NULL => RadiusPositive(call.ret)

OnCircle(points, c, r) == \A i \in 1..Len(points) : SqDist(points[i], c) = RSq(r)
DistinctPoints(points) == {points[i] : i \in 1..Len(points)}
CircleCenters == {Pt(x, y) : x \in -1..7, y \in -1..1}
CircleRadii == {Int2R(k) : k \in 1..4}

(* C12: for at least three distinct points that all lie exactly on one
   circle with center (a, b) and radius r > 0, fitCircle2D succeeds and
   returns center (a, b) and radius r, whatever the scale and position of
   the circle. *)
C12_ExactCircleRecovered ==
  (IsFitCircle2DCall /\ call.arithmetic = "exact") =>
    \A c \in CircleCenters, r \in CircleRadii :
      (Cardinality(DistinctPoints(call.points)) >= 3 /\ OnCircle(call.points, c, r)) =>
        /\ call.ret # NULL
        /\ call.ret.center = c
        /\ call.ret.radius = r

(* C13: too little data gives null, without an exception and without any
   fitting: fitCircle2D and fitCircleRANSAC for fewer than 3 points (no
   index drawn, no sample fitted, no refit), fitCylinder for fewer than 10
   points and detectVolume for fewer than 100 points, whatever the random
   trials would have given. *)
C13_TooFewPointsNoWork ==
  /\ (IsFitCircle2DCall /\ Len(call.points) < 3) => call.ret = NULL
  /\ (IsRansacCall /\ Len(call.points) < 3) =>
       /\ call.pc = "done"
       /\ call.ret = NULL
       /\ call.indices = {}
       /\ call.trials = << >>
       /\ call.refits = 0
  /\ (call.op = "fitCylinder" /\ call.ply.vertexCount < 10) => call.ret = NULL
  /\ (call.op = "detectVolume" /\ call.ply.vertexCount < 100) => call.ret = NULL

(* a cloud of 50 points whose rim slice and body would both have fitted *)
C13_Witness ==
  /\ call.op = "detectVolume"
  /\ call.ply.vertexCount < 100
  /\ call.ply.vertexCount >= 10
  /\ call.rnd.rim # NULL
  /\ circleFromSolution(call.rnd.rim) # NULL
  /\ call.ret = NULL

ValidTrials == {k \in 1..Len(call.trials) : call.trials[k].circle # NULL}

(* C14: fitCircleRANSAC returns null if and only if fewer than 3 points are
   given or no trial's three-point fit gives a valid circle: for any
   iteration count and any threshold, a valid trial circle means a circle
   is returned. *)
C14_FailsOnlyWithoutValidTrial ==
  RansacDone => (call.ret = NULL <=> (Len(call.points) < 3 \/ ValidTrials = {}))

(* the extent of the cloud along an axis that is one of the coordinate axes *)
ExtentAlong(ply, axis) ==
  RAdd(RAdd(RMul(axis[1], RSub(ply.bounds.max[1], ply.bounds.min[1])),
            RMul(axis[2], RSub(ply.bounds.max[2], ply.bounds.min[2]))),
       RMul(axis[3], RSub(ply.bounds.max[3], ply.bounds.min[3])))

(* C15: for any axis passed to fitCylinder, not only the default vertical
   one, the returned height is the max-minus-min extent of the points along
   that axis. *)
C15_HeightAlongAxis ==
  (call.op = "fitCylinder" /\ call.ret # NULL) =>
    call.ret.height = ExtentAlong(call.ply, call.axis)

(* c + a^2 + b^2 of a solution, the square of the radius *)
RadiusSquared(sol) == RAdd(sol.c, RAdd(RSq(sol.a), RSq(sol.b)))
CircleFitFails(sol) == sol = NULL \/ RadiusSquared(sol).n <= 0

(* C16: every fit returned by fitCylinder has radius > 0, height > 0 and a
   confidence within [0, 1] that equals max(0, 1 - mean absolute radial
   residual / radius); fitCylinder returns null whenever the circle fit
   fails or the points have zero vertical extent. *)
C16_CylinderFitWellFormed ==
  call.op = "fitCylinder" =>
    /\ call.ret # NULL =>
         LET q == RSub(ROne, RDiv(call.rnd.avgError, call.ret.radius))
         IN  /\ call.ret.radius.n > 0
             /\ call.ret.height.n > 0
             /\ call.ret.confidence.n >= 0
             /\ RLe(call.ret.confidence, ROne)
             /\ call.ret.confidence = IF q.n < 0 THEN RZero ELSE q
    /\ CircleFitFails(call.rnd.all) => call.ret = NULL
    /\ call.ply.bounds.max[2] = call.ply.bounds.min[2] => call.ret = NULL

(* a fit whose confidence lies strictly between 0 and 1 *)
C16_Witness ==
  /\ call.op = "fitCylinder"
  /\ call.ret # NULL
  /\ call.ret.confidence.n > 0
  /\ RLt(call.ret.confidence, ROne)

(* handleFileLoaded on a buffer that parsePlyFile throws on *)
ParseFailure ==
  \E file \in Files, rnd \in Outcomes :
    parsePlyFile(file.buffer) = Threw /\ handleFileLoaded(file, rnd)

(* C17: when parsing a newly submitted file throws, handleFileLoaded
   leaves the held buffer, the parsed point cloud, the detection result,
   the fill level, the tilt angle and the manual cylinder adjustments as
   they were, sets an error message and ends with isLoading false. *)
C17_ParseFailureKeepsState ==
  [][ParseFailure =>
       /\ plyBuffer' = plyBuffer
       /\ parsedPly' = parsedPly
       /\ volumeResult' = volumeResult
       /\ fillLevel' = fillLevel
       /\ tiltAngle' = tiltAngle
       /\ cylinderAdjustments' = cylinderAdjustments
       /\ error' # NoString
       /\ isLoading' = FALSE]_vars

(* estimateCupMass(0.04, 0.1): wall thickness and density at their defaults *)
IsSpecCupMassCall ==
  /\ call.op = "estimateCupMass"
  /\ call.outerRadius = R(4, 100)
  /\ call.height = R(1, 10)

(* (pi * (R^2 - (R - 0.005)^2) * height + pi * R^2 * 0.005) * 2400 *)
ShellPlusBase(outerRadius, height) ==
  RMul(RAdd(RMul(RMul(PI, RSub(RSq(outerRadius), RSq(RSub(outerRadius, R(5, 1000))))), height),
            RMul(RMul(PI, RSq(outerRadius)), R(5, 1000))),
       Int2R(2400))

(* C18 as stated: estimateCupMass(0.04, 0.1), with the default wall
   thickness 0.005 and density 2400, is the shell-plus-base formula and
   evaluates to approximately 0.27 (to two decimals). *)
C18_CupMassAsStated ==
  /\ call.op = "estimateCupMass" => call.ret = ShellPlusBase(call.outerRadius, call.height)
  /\ IsSpecCupMassCall => (RLt(R(265, 1000), call.ret) /\ RLt(call.ret, R(275, 1000)))

(* C18, amended: estimateCupMass(0.04, 0.1), with the default wall
   thickness 0.005 and density 2400, is the shell-plus-base formula and
   evaluates to approximately 0.343 (between 0.3425 and 0.3435). *)
C18_CupMassValue ==
  /\ call.op = "estimateCupMass" => call.ret = ShellPlusBase(call.outerRadius, call.height)
  /\ IsSpecCupMassCall => (RLt(R(3425, 10000), call.ret) /\ RLt(call.ret, R(3435, 10000)))

C18_Witness == IsSpecCupMassCall /\ RLt(R(34, 100), call.ret)

(* C19: for at least 3 points and any iteration count fitCircleRANSAC
   terminates: every trial is made on exactly three distinct indices of
   the points, a call makes at most `iterations` trials and one refit, and,
   the random source not returning held indices forever, every call
   reaches its return. *)
C19_RansacTerminates ==
  /\ [](IsRansacCall =>
          /\ Len(call.trials) <= call.iterations
          /\ call.refits <= 1
          /\ \A k \in 1..Len(call.trials) :
               /\ Cardinality(call.trials[k].sample) = 3
               /\ call.trials[k].sample \subseteq 1..Len(call.points))
  /\ (IsRansacCall ~> RansacDone)

(* a call that has returned after all its trials and a refit, one of the
   trials having drawn an index it already held *)
C19_Witness ==
  /\ RansacDone
  /\ Len(call.points) >= 3
  /\ call.iterations = MaxIterations
  /\ Len(call.trials) = call.iterations
  /\ call.refits = 1
  /\ \E k \in 1..Len(call.trials) : call.trials[k].repeated

(* the first of the valid trials with the most inliers *)
BestTrial ==
  CHOOSE k \in ValidTrials :
    /\ \A j \in ValidTrials : call.trials[j].inliers <= call.trials[k].inliers
    /\ \A j \in ValidTrials : call.trials[j].inliers = call.trials[k].inliers => k <= j

(* C20: the candidate retained after all trials is a valid trial circle
   whose inlier count is the maximum over all valid trial circles, the
   earliest such trial on ties; the returned circle is the refit over that
   candidate's inliers when the refit succeeds, otherwise the candidate. *)
C20_BestCandidateRefit ==
  (RansacDone /\ ValidTrials # {}) =>
    /\ call.candidate = call.trials[BestTrial].circle
    /\ LET refined == fitCircle2D(inlierPoints(call.points, call.candidate, call.threshold))
       IN  call.ret = IF refined # NULL THEN refined ELSE call.candidate

IsDetectCall == call.op = "detectVolume"

(* the rim slice gives no circle; the fit over all points gives no cylinder *)
RimFitFails == call.ply.rimCount < 3 \/ CircleFitFails(call.rnd.rim)
BodyFitFails ==
  \/ call.ply.vertexCount < 10
  \/ CircleFitFails(call.rnd.all)
  \/ call.ply.bounds.max[2] = call.ply.bounds.min[2]

(* the circle of the fit over all points, and its confidence *)
BodyRadius == RSqrt(RadiusSquared(call.rnd.all))
BodyConfidence ==
  LET q == RSub(ROne, RDiv(call.rnd.avgError, BodyRadius))
  IN  IF q.n < 0 THEN RZero ELSE q

(* C21: for at least 100 points detectVolume returns null if and only if
   both the rim circle fit and the fallback fitCylinder over all points
   fail; when only the rim circle fit fails the result carries the
   fallback cylinder, baseHeight = the height of its center, rimHeight =
   baseHeight + its height, interiorVolume = pi * r^2 * h of it, and the
   confidence of the cylinder fit. *)
C21_FallbackWhenRimFails ==
  (IsDetectCall /\ call.ply.vertexCount >= 100) =>
    /\ call.ret = NULL <=> (RimFitFails /\ BodyFitFails)
    /\ (RimFitFails /\ ~BodyFitFails) =>
         /\ call.ret.cylinder.radius = BodyRadius
         /\ call.ret.cylinder.height = RSub(call.ply.bounds.max[2], call.ply.bounds.min[2])
         /\ call.ret.cylinder.center[2] = call.ply.bounds.min[2]
         /\ call.ret.baseHeight = call.ret.cylinder.center[2]
         /\ call.ret.rimHeight = RAdd(call.ret.baseHeight, call.ret.cylinder.height)
         /\ call.ret.interiorVolume =
              RMul(RMul(PI, RSq(call.ret.cylinder.radius)), call.ret.cylinder.height)
         /\ call.ret.cylinder.confidence = BodyConfidence

(* a detection on the fallback path whose confidence is not that of the
   rim path *)
C21_Witness ==
  /\ IsDetectCall
  /\ call.ply.vertexCount >= 100
  /\ RimFitFails
  /\ ~BodyFitFails
  /\ call.ret # NULL
  /\ call.ret.cylinder.confidence # R(8, 10)

(* C22: on the rim-circle path the reported interiorVolume is pi *
   cylinder.radius^2 * cylinder.height of the returned cylinder, where
   cylinder.height is rimHeight - baseHeight floored at 0.01 and
   cylinder.radius is 0.85 times the rim radius, also where rimHeight -
   baseHeight is below the floor. *)
C22_VolumeOfReturnedCylinder ==
  (IsDetectCall /\ call.ply.vertexCount >= 100 /\ ~RimFitFails) =>
    /\ call.ret # NULL
    /\ call.ret.cylinder.radius = RMul(R(85, 100), RSqrt(RadiusSquared(call.rnd.rim)))
    /\ call.ret.cylinder.height =
         (IF RLt(RSub(call.ret.rimHeight, call.ret.baseHeight), R(1, 100)) THEN R(1, 100)
          ELSE RSub(call.ret.rimHeight, call.ret.baseHeight))
    /\ call.ret.interiorVolume =
         RMul(RMul(PI, RSq(call.ret.cylinder.radius)), call.ret.cylinder.height)

(* the points strictly inside band i, the heights between minY + i * t and
   minY + (i + 1) * t for the thickness t of a twentieth of the extent *)
InBand(i) ==
  LET t == RDiv(RSub(call.maxY, call.minY), Int2R(20))
  IN  {k \in 1..Len(call.ys) :
         /\ RLt(RAdd(call.minY, RMul(Int2R(i), t)), call.ys[k])
         /\ RLt(call.ys[k], RAdd(call.minY, RMul(Int2R(i + 1), t)))}

MostInBand == MaxOf({Cardinality(InBand(i)) : i \in 0..19})
OverThreshold == {i \in 0..19 : 10 * Cardinality(InBand(i)) > 3 * MostInBand}

(* C23: findRimHeight returns the center height of the highest of the 20
   bands whose point count strictly exceeds 0.3 times the maximum band
   count, and the top of the bounds only when no band exceeds it. *)
C23_RimIsTopmostDenseBand ==
  call.op = "findRimHeight" =>
    IF OverThreshold = {} THEN call.ret = call.maxY
    ELSE /\ call.ret = RAdd(call.minY,
                            RMul(R(2 * MaxOf(OverThreshold) + 1, 2),
                                 RDiv(RSub(call.maxY, call.minY), Int2R(20))))
         /\ call.ret # call.maxY

(* the rim is a band below the top one, above which a band holds points
   that do not exceed the threshold *)
C23_Witness ==
  /\ call.op = "findRimHeight"
  /\ OverThreshold # {}
  /\ \E i \in 0..19 : i > MaxOf(OverThreshold) /\ InBand(i) # {}
  /\ RLt(call.ret, call.maxY)

(* C24: in every successful detectVolume result, on the rim-circle path
   and on the fallback path, the label is upright or inverted exactly when
   the axis is the vertical unit vector (0, 1, 0), upright when the
   vertical component of the eigenvector is positive and inverted
   otherwise, and the label is sideways exactly when the axis is the
   eigenvector itself, whose absolute vertical component is at most 0.7. *)
C24_LabelAgreesWithAxis ==
  (IsDetectCall /\ call.ret # NULL) =>
    LET principal == call.ply.principal
        absVertical == IF principal[2].n < 0 THEN RNeg(principal[2]) ELSE principal[2]
        label == call.ret.orientation
        axis == call.ret.cylinder.axis
    IN  /\ label \in {"upright", "inverted"} <=> axis = <<RZero, ROne, RZero>>
        /\ label = "upright" => principal[2].n > 0
        /\ label = "inverted" => principal[2].n <= 0
        /\ label = "sideways" <=>
             (axis = principal /\ ~IsNaN(absVertical) /\ RLe(absVertical, R(7, 10)))

(* C25: in every successful detectVolume result the cylinder axis is a
   well-defined unit vector: the power iteration has not divided a zero
   vector by its zero length, which leaves NaN in every component. *)
C25_AxisIsUnitVector ==
  (IsDetectCall /\ call.ret # NULL) =>
    LET axis == call.ret.cylinder.axis
        principal == call.ply.principal
    IN  /\ ~IsNaN(principal[1]) /\ ~IsNaN(principal[2]) /\ ~IsNaN(principal[3])
        /\ ~IsNaN(axis[1]) /\ ~IsNaN(axis[2]) /\ ~IsNaN(axis[3])
        /\ RAdd(RAdd(RSq(axis[1]), RSq(axis[2])), RSq(axis[3])) = ROne

(* the file of the name that FileUpload displays *)
DisplayedFile == CHOOSE file \in Files : file.name.ext = "ply" /\ file.name.stem = fileName

(* C26: when the files submitted through one FileUpload have all been read,
   the data loaded in the page by the last onFileLoaded call is that of the
   most recently submitted file, the one whose name FileUpload displays,
   whatever the order in which the reads ended: its buffer is the page's
   buffer, or its parse failure is the page's error. *)
C26_LastLoadedIsLastSubmitted ==
  (reading = {} /\ fileName # NoString) =>
    IF parsePlyFile(DisplayedFile.buffer) = Threw
    THEN error = "Failed to parse PLY file. Make sure it's a valid .ply format."
    ELSE plyBuffer = DisplayedFile.buffer

(* C27: for every cylinder that detection returns with radius > 0 and
   height > 0, scaled by radius and height factors of the slider range 0.1
   to 3, the cup mass that the page passes to calculatePhysicsState is
   strictly positive. *)
C27_CupMassPositive ==
  (/\ call.op = "cupMass"
   /\ RLt(RZero, call.volumeResult.cylinder.radius)
   /\ RLt(RZero, call.volumeResult.cylinder.height)) =>
    RLt(RZero, call.ret)

(* C28: in every PhysicsState that calculatePhysicsState returns for a
   cylinder with radius > 0 and height > 0, the volume poured is at least 0
   and at most the liquid volume. *)
C28_SpillWithinLiquid ==
  (IsPhysicsCall /\ RPos(call.cylinder.radius) /\ RPos(call.cylinder.height)) =>
    /\ RLe(RZero, call.ret.volumePoured)
    /\ RLe(call.ret.volumePoured, call.ret.liquidVolume)

(* a tilted cup that spills a part of its liquid *)
C28_Witness ==
  /\ IsPhysicsCall /\ RPos(call.cylinder.radius) /\ RPos(call.cylinder.height)
  /\ RPos(call.ret.volumePoured)
  /\ RLt(call.ret.volumePoured, call.ret.liquidVolume)

(* the height of the centroid of the liquid and of the cup, and the critical
   angle that the same call returns for the empty cup *)
LiquidCentroidHeight ==
  RAdd(call.cylinder.center.y,
       RDiv(RMul(call.ret.fillLevel, call.cylinder.height), Int2R(2)))
CupCentroidHeight == RAdd(call.cylinder.center.y, RDiv(call.cylinder.height, Int2R(2)))
EmptyCupCriticalAngle ==
  calculatePhysicsState(call.cylinder, RZero, call.tiltAngle, call.cupMass,
                        call.liquidDensity).criticalTipoverAngle

NonNegativeMasses ==
  /\ IsPhysicsCall
  /\ RPos(call.cylinder.height)
  /\ RNonNeg(call.cupMass) /\ RNonNeg(call.liquidDensity)

(* C29: for every cylinder with height > 0 and non-negative cup mass and
   liquid density, the center of mass that calculatePhysicsState returns has
   the x and z of the base center and a height from that of the liquid
   centroid to that of the cup centroid, and the critical tipover angle is
   at least that of the empty cup. *)
C29_CenterOfMassBetweenCentroids ==
  NonNegativeMasses =>
    /\ call.ret.centerOfMass.x = call.cylinder.center.x
    /\ call.ret.centerOfMass.z = call.cylinder.center.z
    /\ RLe(LiquidCentroidHeight, call.ret.centerOfMass.y)
    /\ RLe(call.ret.centerOfMass.y, CupCentroidHeight)
    /\ AngLe(EmptyCupCriticalAngle, call.ret.criticalTipoverAngle)

(* cup and liquid both weigh: the center of mass lies strictly between the
   two centroids and the critical angle exceeds that of the empty cup *)
C29_Witness ==
  /\ NonNegativeMasses
  /\ RPos(call.cupMass) /\ RPos(call.liquidDensity) /\ RPos(call.cylinder.radius)
  /\ RLt(LiquidCentroidHeight, call.ret.centerOfMass.y)
  /\ RLt(call.ret.centerOfMass.y, CupCentroidHeight)
  /\ AngLt(EmptyCupCriticalAngle, call.ret.criticalTipoverAngle)

(* C30: for every cylinder with radius > 0 and height > 0, every fillLevel
   from 0 to 1 and every tilt from 0 up to but not at pi / 2,
   getLiquidSurfaceWhenTilted reports spilling exactly when volumePoured of
   the same arguments is above 0. *)
C30_SpillIndicatorsAgree ==
  (/\ call.op = "getLiquidSurfaceWhenTilted"
   /\ RPos(call.cylinder.radius) /\ RPos(call.cylinder.height)
   /\ RLe(RZero, call.fillLevel) /\ RLe(call.fillLevel, ROne)
   /\ AngLe(AngZero, call.tiltAngle) /\ AngLt(call.tiltAngle, HalfPi)) =>
    (call.ret.spilling <=>
       RPos(volumePoured(call.tiltAngle, call.cylinder, call.fillLevel)))

=============================================================================
